---------------------------- MODULE Spec2Model ----------------------------
(***************************************************************************)
(* A model of the dvmeta crawl-and-merge pipeline: the tree flattener      *)
(* (utils.flatten_collection), the bounded-concurrency fetch layer         *)
(* (HttpxClient.async_get and the three batch operations of               *)
(* MetaDataCrawler), the join/merge engine (func.add_path_info,            *)
(* func.add_permission_info, ...) and the orchestrator (main).             *)
(*                                                                         *)
(* Python values are modelled as follows.  A dict is a sequence of         *)
(* [k, v] entries with distinct keys, in insertion order (Python dicts     *)
(* iterate in insertion order and the joins stop at the first match).      *)
(* A JSON object whose keys vary is a TLA+ function whose DOMAIN is the    *)
(* set of keys present.  None is the value None below.                     *)
(***************************************************************************)
EXTENDS Integers, Sequences, FiniteSets, Bags, TLC

VARIABLES
    pc,               \* control location of the modelled program
    meta_dict,        \* main_crawler: meta_dict
    ds_dict,          \* main_crawler: ds_dict (dataset references)
    permission_dict,  \* main_crawler: permission_dict
    pid_dict_dd,      \* main_crawler: pid_dict_dd (pending references)
    pre,              \* the arguments of the last merge-engine call
    layout,           \* the collection hierarchy held by the repository
    collections_tree,         \* main: collections_tree (the tree response body)
    collections_tree_flatten, \* main_crawler: collections_tree_flatten
    placement,        \* the repository: the collection node holding each dataset
    server,           \* the repository: how the request to each URL is answered
    tree_reply,       \* the repository: how the tree request is answered
    op,               \* the batch operation of MetaDataCrawler in progress
    id_list,          \* its id_list argument
    url_list,         \* the URLs handed to HttpxClient.async_get
    task,             \* per URL, where its _async_semaphore_client task stands
    results,          \* per URL, the value its task returned to asyncio.gather
    sem,              \* HttpxClient.semaphore: the slots left
    success,          \* the first dict the batch operation returned
    failure,          \* the second dict the batch operation returned
    config,           \* main: config and the command-line options
    response,         \* main: response (of get_collections_tree)
    dataverse_contents,        \* main_crawler: dataverse_contents
    failed_dataverse_contents, \* main_crawler: failed_dataverse_contents
    empty_dv_dict,             \* main_crawler: empty_dv_dict
    failed_metadata_uris,      \* main_crawler: failed_metadata_uris
    failed_permission_uris,    \* main_crawler: failed_permission_uris
    exports,          \* the files written by utils.orjson_export and make_csv_file
    stages,           \* the crawler's calls so far, in order
    connection,       \* main: the probes of the connection check and its outcome
    sent,             \* the GET requests sent so far, each with its headers
    default_path_ids, \* flatten_collection: the list object behind path_ids=[]
    first_flatten     \* what the first flatten_collection call on the tree returned

mergeVars == <<meta_dict, ds_dict, permission_dict, pid_dict_dd, pre>>
treeVars == <<layout, collections_tree, collections_tree_flatten>>
worldVars == <<placement, server, tree_reply>>
batchVars == <<op, id_list, url_list, task, results, sem, success, failure>>
runVars == <<config, response, dataverse_contents, failed_dataverse_contents, empty_dv_dict,
             failed_metadata_uris, failed_permission_uris, exports>>
logVars == <<connection, sent, default_path_ids, first_flatten>>
vars == <<pc, mergeVars, treeVars, worldVars, batchVars, runVars, stages, logVars>>

----------------------------------------------------------------------------
(* Bounds of the model.                                                    *)

\* Number of distinct datasets (numeric IDs 1..MaxDs).
MaxDs == 2

\* Number of collections below the root in a tree response.
MaxNodes == 3

\* Size of a batch that has to queue behind the concurrency gate.
MaxBatch == 11

----------------------------------------------------------------------------
(* Python values.                                                          *)

\* Python's None where an integer is expected (never a dataset ID).
None == 0 - 1

\* An Optional[dict] argument: None, or the dict d.
NoneDict == [isdict |-> FALSE, d |-> <<>>]
SomeDict(d) == [isdict |-> TRUE, d |-> d]

\* A Python str is a sequence of characters (or of longer literal pieces
\* that the program never takes apart).
\* str(n) for a non-negative integer: its decimal digits.
Digits == <<"0", "1", "2", "3", "4", "5", "6", "7", "8", "9">>

RECURSIVE IntToStr(_)
IntToStr(n) == IF n < 10 THEN <<Digits[n + 1]>>
               ELSE IntToStr(n \div 10) \o <<Digits[(n % 10) + 1]>>

\* int(s): defined for the decimal strings; ValueError (None here) otherwise.
StrToInt(s) == IF \E n \in 0..99 : IntToStr(n) = s
               THEN CHOOSE n \in 0..99 : IntToStr(n) = s
               ELSE None

\* Dict keys: Python keeps 1 and "1" apart.
IntKey(n) == [t |-> "int", i |-> n, s |-> <<>>]
StrKey(str) == [t |-> "str", i |-> 0, s |-> str]

\* str(key)
KeyStr(key) == IF key.t = "int" THEN IntToStr(key.i) ELSE key.s

\* dict helpers over the entry sequence
EmptyDict == <<>>
Keys(d) == {d[i].k : i \in 1..Len(d)}
Has(d, key) == \E i \in 1..Len(d) : d[i].k = key
IndexOf(d, key) == CHOOSE i \in 1..Len(d) : d[i].k = key
Get(d, key) == d[IndexOf(d, key)].v
\* d[key] = val: an existing key keeps its position
Put(d, key, val) ==
    IF Has(d, key)
    THEN [d EXCEPT ![IndexOf(d, key)] = [k |-> key, v |-> val]]
    ELSE Append(d, [k |-> key, v |-> val])
\* d.pop(key)
Pop(d, key) == SelectSeq(d, LAMBDA e : e.k # key)
Values(d) == {d[i].v : i \in 1..Len(d)}

\* All sequences without repetition over the set S.
RECURSIVE InjSeqs(_)
InjSeqs(S) ==
    {<<>>} \cup UNION {{<<x>> \o t : t \in InjSeqs(S \ {x})} : x \in S}

\* The ascending sequence of a set of integers.
RECURSIVE Ascending(_)
Ascending(S) ==
    IF S = {} THEN <<>>
    ELSE LET lo == CHOOSE x \in S : \A y \in S : x <= y
         IN  <<lo>> \o Ascending(S \ {lo})

\* obj[field] = val on a JSON object
SetField(obj, field, val) ==
    [g \in (DOMAIN obj) \cup {field} |-> IF g = field THEN val ELSE obj[g]]

\* obj.get('data', {}).get('datasetId')
DatasetIdOf(obj) ==
    IF "data" \in DOMAIN obj /\ "datasetId" \in DOMAIN obj.data
    THEN obj.data.datasetId ELSE None

----------------------------------------------------------------------------
(* The join/merge engine (func.py).                                        *)

\* Index of the first record of meta whose data.datasetId equals n, or 0.
FirstMatch(meta, n) ==
    IF \E i \in 1..Len(meta) : DatasetIdOf(meta[i].v) = n
    THEN CHOOSE i \in 1..Len(meta) :
            /\ DatasetIdOf(meta[i].v) = n
            /\ \A j \in 1..(i - 1) : DatasetIdOf(meta[j].v) # n
    ELSE 0

\* replace_key_with_dataset_id: a falsy datasetId (None or 0) keeps the key.
RECURSIVE ReplaceKeyLoop(_, _, _)
ReplaceKeyLoop(dictionary, i, new_dict) ==
    IF i > Len(dictionary) THEN new_dict
    ELSE LET value == dictionary[i].v
             id == DatasetIdOf(value)
         IN  IF id # None /\ id # 0
             THEN ReplaceKeyLoop(dictionary, i + 1, Put(new_dict, IntKey(id), value))
             ELSE ReplaceKeyLoop(dictionary, i + 1, Put(new_dict, dictionary[i].k, value))

replace_key_with_dataset_idMut(dictionary) == dictionary

replace_key_with_dataset_id(dictionary) == ReplaceKeyLoop(dictionary, 1, EmptyDict)

\* One iteration of add_path_info's outer loop, for the reference item.
AddPathInfoMutStep(meta, copy, item) ==
    LET m == FirstMatch(meta, StrToInt(KeyStr(item.k)))
    IN  IF m = 0 THEN [meta |-> meta, pending |-> copy]
        ELSE [meta |-> [meta EXCEPT ![m].v = SetField(@, "path_info", item.v)],
              pending |-> copy]

AddPathInfoStep(meta, copy, item) ==
    LET m == FirstMatch(meta, StrToInt(KeyStr(item.k)))
    IN  IF m = 0 THEN [meta |-> meta, pending |-> copy]
        ELSE [meta |-> [meta EXCEPT ![m].v = SetField(@, "path_info", item.v)],
              pending |-> Pop(copy, item.k)]

RECURSIVE AddPathInfoLoop(_, _, _, _)
AddPathInfoLoop(meta, copy, items, i) ==
    IF i > Len(items) THEN [meta |-> meta, pending |-> copy]
    ELSE LET r == AddPathInfoStep(meta, copy, items[i])
         IN  AddPathInfoLoop(r.meta, r.pending, items, i + 1)

\* add_path_info(meta_dict, ds_dict) -> (meta_dict, ds_dict_copy)
add_path_infoMut(meta, refs) == [meta |-> meta, pending |-> refs]

add_path_info(meta, refs) == AddPathInfoLoop(meta, refs, refs, 1)

\* The placeholder for "permission not collected".
Sentinel == [status |-> "NA", data |-> <<>>]

\* One iteration of add_permission_info's first loop.
AddPermissionStepMut(meta, perms, item) ==
    LET m == FirstMatch(meta, StrToInt(KeyStr(item.k)))
    IN  IF m = 0 THEN [meta |-> meta, perms |-> perms]
        ELSE [meta |-> [meta EXCEPT ![m].v = SetField(@, "permission_info", item.v)],
              perms |-> perms]

AddPermissionStep(meta, perms, item) ==
    LET m == FirstMatch(meta, StrToInt(KeyStr(item.k)))
    IN  IF m = 0 THEN [meta |-> meta, perms |-> perms]
        ELSE [meta |-> [meta EXCEPT ![m].v = SetField(@, "permission_info", item.v)],
              perms |-> Pop(perms, item.k)]

RECURSIVE AddPermissionLoop(_, _, _, _)
AddPermissionLoop(meta, perms, items, i) ==
    IF i > Len(items) THEN [meta |-> meta, perms |-> perms]
    ELSE LET r == AddPermissionStep(meta, perms, items[i])
         IN  AddPermissionLoop(r.meta, r.perms, items, i + 1)

\* add_permission_info's second loop: the sentinel for every record left without.
FillSentinelMut(meta) == meta

FillSentinel(meta) ==
    [i \in 1..Len(meta) |->
        IF "permission_info" \in DOMAIN meta[i].v THEN meta[i]
        ELSE [meta[i] EXCEPT !.v = SetField(@, "permission_info", Sentinel)]]

\* add_permission_info(meta_dict, permission_dict): the merged mapping and
\* the permission dict as the call leaves it (entries attached are popped).
add_permission_info(meta, perms) ==
    LET r == IF ~perms.isdict THEN [meta |-> meta, perms |-> perms.d]
             ELSE AddPermissionLoop(meta, perms.d, perms.d, 1)
    IN  [meta |-> FillSentinel(r.meta), perms |-> r.perms]

----------------------------------------------------------------------------
(* The tree flattener (utils.py).  Strings that are taken apart or put     *)
(* together (names, paths) are sequences of characters.                    *)

\* del obj[field] / obj.pop(field, None)
DelField(obj, field) == [g \in (DOMAIN obj) \ {field} |-> obj[g]]

\* new_item of loop_item: the copy of item with pathIds and path, less children.
NewItemMut(item, path_name, path_ids) ==
    LET current_path_ids == <<item.id>>
        a == SetField(item, "pathIds", current_path_ids)
        b == SetField(a, "path", IF path_name # <<>>
                                 THEN path_name \o <<"/">> \o item.name
                                 ELSE item.name)
    IN  DelField(b, "children")

NewItem(item, path_name, path_ids) ==
    LET current_path_ids == path_ids \o <<item.id>>
        a == SetField(item, "pathIds", current_path_ids)
        b == SetField(a, "path", IF path_name # <<>>
                                 THEN path_name \o <<"/">> \o item.name
                                 ELSE item.name)
    IN  DelField(b, "children")

\* Whether loop_item descends into item.
DescendsMut(item) == FALSE

Descends(item) == "children" \in DOMAIN item

\* loop_item over children[k..], accumulating into write_dict.
RECURSIVE loop_item(_, _, _, _, _)
loop_item(children, k, path_name, path_ids, write_dict) ==
    IF k > Len(children) THEN write_dict
    ELSE LET item == children[k]
             new_item == NewItem(item, path_name, path_ids)
             wd1 == Put(write_dict, IntKey(item.id), new_item)
             wd2 == IF Descends(item)
                    THEN loop_item(item.children, 1, new_item.path, new_item.pathIds, wd1)
                    ELSE wd1
         IN  loop_item(children, k + 1, path_name, path_ids, wd2)

\* flatten_collection(readdict) with the default path_name='' and path_ids=[]
flatten_collection(readdict) ==
    LET dictionary_data == readdict.data
    IN  IF "children" \notin DOMAIN dictionary_data \/ dictionary_data.children = <<>>
        THEN EmptyDict
        ELSE loop_item(dictionary_data.children, 1, <<>>, <<>>, EmptyDict)

----------------------------------------------------------------------------
(* Tree responses.  A hierarchy is laid out as nodes 1..n below the root   *)
(* (node 0): parent[i] < i, and the children of a node are listed in       *)
(* increasing order.                                                       *)

\* Collection names: any str, the empty one included (models.py: name: str).
Names == {<<>>, <<"a">>, <<"b">>}

\* Collection IDs of the nodes 0..n: all distinct, or with a repeated one
\* (a collection reachable by two paths).
IdAssignments(n) ==
    {[i \in 0..n |-> 10 - i], [i \in 0..n |-> 10 - (i % 2)]}

ChildrenOf(par, n, i) == {c \in 1..n : par[c] = i}

\* A node with children always has the 'children' key; a leaf may have an
\* empty list or no key at all.  The root's name is not read by the flattener.
Parents ==
    UNION {{f \in [1..n -> 0..n] : \A i \in 1..n : f[i] < i} : n \in 0..MaxNodes}

LayoutsOf(par) ==
    LET n == Len(par)
    IN  {[n |-> n, parent |-> par,
          name |-> [i \in 0..n |-> IF i = 0 THEN <<"r">> ELSE nm[i]],
          id |-> ids, haskey |-> hk] :
            nm \in [1..n -> Names],
            ids \in IdAssignments(n),
            hk \in {f \in [0..n -> BOOLEAN] :
                      \A i \in 0..n : (ChildrenOf(par, n, i) # {}) => f[i]}}

Layouts == UNION {LayoutsOf(par) : par \in Parents}

\* The JSON object of node i.
RECURSIVE NodeJson(_, _)
NodeJson(L, i) ==
    LET base == [id |-> L.id[i], name |-> L.name[i], alias |-> <<"c">> \o IntToStr(L.id[i])]
        kids == Ascending(ChildrenOf(L.parent, L.n, i))
    IN  IF L.haskey[i]
        THEN SetField(base, "children", [k \in 1..Len(kids) |-> NodeJson(L, kids[k])])
        ELSE base

\* The body of GET /api/info/metrics/tree
TreeResponse(L) == [status |-> "OK", data |-> NodeJson(L, 0)]

NoTree == [status |-> "", data |-> [id |-> 0, name |-> <<>>]]
NoLayout == [n |-> 0, parent |-> <<>>, name |-> [i \in {0} |-> <<>>],
             id |-> [i \in {0} |-> 0], haskey |-> [i \in {0} |-> FALSE]]

\* asyncio.Semaphore(10)
SemaphoreLimit == 10

BatchIdle ==
    /\ op = "none"
    /\ id_list = <<>>
    /\ url_list = <<>>
    /\ task = <<>>
    /\ results = <<>>
    /\ sem = SemaphoreLimit
    /\ success = EmptyDict
    /\ failure = EmptyDict

WorldIdle ==
    /\ placement = <<>>
    /\ server = <<>>
    /\ tree_reply = "none"

\* An Optional[str]
NoneStr == [none |-> TRUE, s |-> <<>>]
Str(str) == [none |-> FALSE, s |-> str]

NoResponse == [status_code |-> 0, url |-> <<>>, body |-> [isjson |-> FALSE, json |-> <<>>]]

\* config['HEADERS'] as utils.load_env leaves it
AcceptJson == [Accept |-> <<"application/json">>]
LoadedHeaders(api_key) ==
    IF ~api_key.none /\ api_key.s # <<>>
    THEN ("X-Dataverse-key" :> api_key.s) @@ AcceptJson
    ELSE AcceptJson

NoConfig ==
    [dvdfds_matadata |-> FALSE, permission |-> FALSE, failed |-> FALSE,
     empty_dv |-> FALSE, spreadsheet |-> FALSE, API_KEY |-> NoneStr,
     COLLECTION_ALIAS |-> <<>>, HEADERS |-> AcceptJson]

NoConnection == [probes |-> <<>>, connection_status |-> FALSE, auth_status |-> FALSE]

RunIdle ==
    /\ config = NoConfig
    /\ response = NoResponse
    /\ dataverse_contents = EmptyDict
    /\ failed_dataverse_contents = EmptyDict
    /\ empty_dv_dict = <<>>
    /\ failed_metadata_uris = EmptyDict
    /\ failed_permission_uris = EmptyDict
    /\ exports = <<>>
    /\ stages = <<>>
    /\ connection = NoConnection
    /\ sent = EmptyBag
    /\ default_path_ids = <<>>
    /\ first_flatten = EmptyDict

MergeIdle ==
    /\ meta_dict = EmptyDict
    /\ ds_dict = EmptyDict
    /\ permission_dict = EmptyDict
    /\ pid_dict_dd = EmptyDict
    /\ pre = [meta |-> EmptyDict, refs |-> EmptyDict, perms |-> NoneDict]

TreeIdle ==
    /\ layout = NoLayout
    /\ collections_tree = NoTree
    /\ collections_tree_flatten = EmptyDict

InitFlatten ==
    /\ pc = "tree_fetched"
    /\ layout \in Layouts
    /\ collections_tree = TreeResponse(layout)
    /\ collections_tree_flatten = EmptyDict
    /\ MergeIdle
    /\ WorldIdle
    /\ BatchIdle
    /\ RunIdle

\* collections_tree_flatten = utils.flatten_collection(collections_tree)
Flatten ==
    /\ pc = "tree_fetched"
    /\ collections_tree_flatten' = flatten_collection(collections_tree)
    /\ stages' = Append(stages, "flatten_collection")
    /\ pc' = "flattened"
    /\ UNCHANGED <<layout, collections_tree, mergeVars, worldVars, logVars, batchVars, runVars>>

NextFlatten == Flatten

SpecFlatten == InitFlatten /\ [][NextFlatten]_vars

----------------------------------------------------------------------------
(* flatten_collection called again and again in one interpreter.  What a   *)
(* call does to the objects it is handed (the default list of path_ids,    *)
(* the items of the input tree) is computed beside its return value.       *)

\* Number of flatten_collection calls in one interpreter.
MaxCalls == 3

\* The list path_ids after "current_path_ids = path_ids + [item['id']]":
\* the concatenation builds a new list, path_ids is not written.
PathIdsAfterMut(path_ids, item) == path_ids \o <<item.id>>

PathIdsAfter(path_ids, item) == path_ids

\* The dict item after "new_item = item.copy()" and the writes and the pop
\* on new_item: the copy takes them, item is not written.
ItemAfter(item) == item

\* path_ids after the outermost loop_item went through children[k..]; the
\* nested calls are handed current_path_ids, not path_ids.
RECURSIVE PathIdsAfterLoop(_, _, _)
PathIdsAfterLoop(children, k, path_ids) ==
    IF k > Len(children) THEN path_ids
    ELSE PathIdsAfterLoop(children, k + 1, PathIdsAfter(path_ids, children[k]))

\* The children list of the input after loop_item went through it.
RECURSIVE ChildrenAfterLoop(_)
ChildrenAfterLoop(children) ==
    [k \in 1..Len(children) |->
        LET item == ItemAfter(children[k])
        IN  IF "children" \in DOMAIN children[k] /\ "children" \in DOMAIN item
            THEN SetField(item, "children", ChildrenAfterLoop(item.children))
            ELSE item]

\* flatten_collection(readdict) with path_name and path_ids left to their
\* defaults: the returned dict, and the default list and readdict afterwards.
flatten_collection_call(readdict, path_ids) ==
    LET dictionary_data == readdict.data
    IN  IF "children" \notin DOMAIN dictionary_data \/ dictionary_data.children = <<>>
        THEN [result |-> EmptyDict, path_ids |-> path_ids, readdict |-> readdict]
        ELSE [result |-> loop_item(dictionary_data.children, 1, <<>>, path_ids, EmptyDict),
              path_ids |-> PathIdsAfterLoop(dictionary_data.children, 1, path_ids),
              readdict |-> [readdict EXCEPT !.data =
                              SetField(dictionary_data, "children",
                                       ChildrenAfterLoop(dictionary_data.children))]]

\* The trees handed to the repeated calls.
RepeatLayouts == {L \in Layouts : L.n <= 2}

InitRepeat ==
    /\ pc = "tree_fetched"
    /\ layout \in RepeatLayouts
    /\ collections_tree = TreeResponse(layout)
    /\ collections_tree_flatten = EmptyDict
    /\ MergeIdle
    /\ WorldIdle
    /\ BatchIdle
    /\ RunIdle

\* flatten_collection(collections_tree), for the first time on this tree
FlattenFirst ==
    /\ pc = "tree_fetched"
    /\ Len(stages) < MaxCalls
    /\ LET r == flatten_collection_call(collections_tree, default_path_ids)
       IN  /\ collections_tree_flatten' = r.result
           /\ first_flatten' = r.result
           /\ default_path_ids' = r.path_ids
           /\ collections_tree' = r.readdict
    /\ stages' = Append(stages, "flatten_collection")
    /\ pc' = "flattened"
    /\ UNCHANGED <<layout, mergeVars, worldVars, connection, sent, batchVars, runVars>>

\* flatten_collection(collections_tree), once more on the same tree
FlattenAgain ==
    /\ pc = "flattened"
    /\ Len(stages) < MaxCalls
    /\ LET r == flatten_collection_call(collections_tree, default_path_ids)
       IN  /\ collections_tree_flatten' = r.result
           /\ default_path_ids' = r.path_ids
           /\ collections_tree' = r.readdict
    /\ stages' = Append(stages, "flatten_collection")
    /\ UNCHANGED <<pc, layout, first_flatten, mergeVars, worldVars, connection, sent,
                   batchVars, runVars>>

\* Another tree is parsed from a response and will be flattened next.
OtherTree ==
    /\ pc = "flattened"
    /\ Len(stages) < MaxCalls
    /\ \E L \in RepeatLayouts :
        /\ L # layout
        /\ layout' = L
        /\ collections_tree' = TreeResponse(L)
    /\ pc' = "tree_fetched"
    /\ UNCHANGED <<collections_tree_flatten, mergeVars, worldVars, logVars, batchVars,
                   runVars, stages>>

NextRepeat == FlattenFirst \/ FlattenAgain \/ OtherTree

SpecRepeat == InitRepeat /\ [][NextRepeat]_vars

----------------------------------------------------------------------------
(* Inputs of the merge engine: what the fetch stages can hand it.          *)

DsIds == 1..MaxDs
Letters == <<"A", "B", "C", "D", "E", "F", "G", "H", "I", "J", "K", "L", "M">>
\* "protocol:authority/identifier" of dataset d
PidOf(d) == <<"doi", ":", "10", "/", Letters[d]>>

\* A metadata record as get_datasets_meta stores it: the response body.
MetaRecord(pid, id) ==
    [status |-> "OK", data |-> [datasetId |-> id, datasetPersistentId |-> pid]]

\* A dataset reference as get_pids builds it.
Reference(d) ==
    [datasetPersistentId |-> PidOf(d), datasetId |-> d]

\* A permission response body of dataset d.
PermissionBody(d) == [status |-> "OK", data |-> <<[_roleAlias |-> "admin", definitionPointId |-> d]>>]

\* meta_dict as get_datasets_meta returns it: keyed by persistent ID.
RawMetaDicts ==
    UNION {{[i \in 1..Len(order) |->
                [k |-> StrKey(PidOf(order[i])), v |-> MetaRecord(PidOf(order[i]), ids[i])]]
            : ids \in [1..Len(order) -> DsIds \cup {None, 0}]}
           : order \in InjSeqs(DsIds)}

\* ds_dict as get_pids returns it: keyed by str(datasetId).
RefDicts ==
    {[i \in 1..Len(Ascending(S)) |->
        [k |-> StrKey(IntToStr(Ascending(S)[i])), v |-> Reference(Ascending(S)[i])]]
     : S \in SUBSET DsIds}

\* permission_dict as get_datasets_permissions returns it: keyed by datasetId.
PermDicts ==
    {[i \in 1..Len(Ascending(S)) |->
        [k |-> IntKey(Ascending(S)[i]), v |-> PermissionBody(Ascending(S)[i])]]
     : S \in SUBSET DsIds}

----------------------------------------------------------------------------
(* The merge engine applied in the orchestrator's order (main.py 167-230)  *)
(* to arbitrary fetched inputs.                                            *)

InitMerge ==
    /\ pc = "fetched"
    /\ meta_dict \in RawMetaDicts
    /\ ds_dict \in RefDicts
    /\ permission_dict \in PermDicts
    /\ pid_dict_dd = EmptyDict
    /\ pre = [meta |-> EmptyDict, refs |-> EmptyDict, perms |-> NoneDict]
    /\ TreeIdle
    /\ WorldIdle
    /\ BatchIdle
    /\ RunIdle

\* meta_dict = func.replace_key_with_dataset_id(meta_dict)
ReplaceKey ==
    /\ pc = "fetched"
    /\ meta_dict' = replace_key_with_dataset_id(meta_dict)
    /\ pre' = [pre EXCEPT !.meta = meta_dict]
    /\ pc' = "rekeyed"
    /\ UNCHANGED <<ds_dict, permission_dict, pid_dict_dd, treeVars, worldVars, logVars, batchVars, runVars, stages>>

\* meta_dict, pid_dict_dd = func.add_path_info(meta_dict, ds_dict)
AddPathInfo ==
    /\ pc = "rekeyed"
    /\ LET r == add_path_info(meta_dict, ds_dict)
       IN  /\ meta_dict' = r.meta
           /\ pid_dict_dd' = r.pending
    /\ pre' = [pre EXCEPT !.meta = meta_dict, !.refs = ds_dict]
    /\ pc' = "joined"
    /\ UNCHANGED <<ds_dict, permission_dict, treeVars, worldVars, logVars, batchVars, runVars, stages>>

\* meta_dict = func.add_permission_info(meta_dict,
\*     permission_dict if isinstance(permission_dict, dict) and permission_dict else None)
AddPermissionInfo ==
    /\ pc = "joined"
    /\ LET arg == IF permission_dict # EmptyDict
                  THEN SomeDict(permission_dict) ELSE NoneDict
           r == add_permission_info(meta_dict, arg)
       IN  /\ meta_dict' = r.meta
           /\ permission_dict' = IF arg.isdict THEN r.perms ELSE permission_dict
           /\ pre' = [pre EXCEPT !.meta = meta_dict, !.perms = arg]
    /\ pc' = "merged"
    /\ UNCHANGED <<ds_dict, pid_dict_dd, treeVars, worldVars, logVars, batchVars, runVars, stages>>

NextMerge == ReplaceKey \/ AddPathInfo \/ AddPermissionInfo

SpecMerge == InitMerge /\ [][NextMerge]_vars

----------------------------------------------------------------------------
(* The repository as the crawler sees it: which node holds which dataset,  *)
(* and the body of each endpoint.                                          *)

\* An entry of a contents listing.
DatasetEntry(d) ==
    [type |-> "dataset", id |-> d, protocol |-> <<"doi">>, authority |-> <<"10">>,
     identifier |-> <<Letters[d]>>]

CollectionEntry(L, i) == [type |-> "dataverse", id |-> L.id[i], title |-> L.name[i]]

CollectionIds(L) == {L.id[i] : i \in 0..L.n}
NodeOfId(L, cid) == CHOOSE i \in 0..L.n : L.id[i] = cid
DatasetsIn(pl, i) == {d \in DOMAIN pl : pl[d] = i}

\* The body of GET /api/dataverses/{id}/contents
ContentsBody(L, pl, cid) ==
    LET i == NodeOfId(L, cid)
        kids == Ascending(ChildrenOf(L.parent, L.n, i))
        ds == Ascending(DatasetsIn(pl, i))
    IN  [status |-> "OK",
         data |-> [k \in 1..Len(kids) |-> CollectionEntry(L, kids[k])]
                  \o [k \in 1..Len(ds) |-> DatasetEntry(ds[k])]]

\* The dataset whose persistent ID is pid.
DatasetOfPid(pid) == CHOOSE d \in 1..Len(Letters) : PidOf(d) = pid

\* The body an endpoint answers with when it answers well.
ServerBody(o, ident) ==
    IF o = "contents" THEN ContentsBody(layout, placement, ident)
    ELSE IF o = "meta" THEN MetaRecord(ident, DatasetOfPid(ident))
    ELSE PermissionBody(ident)

----------------------------------------------------------------------------
(* The HTTP fetch layer (httpxclient.py, metadatacrawler.py).              *)

\* httpx_success_status / http_success_status
HttpSuccess == 200

\* status_code of the response made up for a caught transport error
FallbackStatus == 500

\* An httpx.Response: status, request URL, and body (JSON or not).
NotJson == [isjson |-> FALSE, json |-> <<>>]
Json(v) == [isjson |-> TRUE, json |-> v]
Response(status, url, body) == [status_code |-> status, url |-> url, body |-> body]

\* bool(value) of a parsed JSON body: {} and [] are falsy.
Truthy(v) == v # <<>>

\* config['BASE_URL'], config['VERSION']
BaseUrl == <<"https://dv">>
Version == <<"latest">>

\* urlencode: ':' and '/' are percent-encoded in a query value.
\* (the query value is pasted into the URL as it is)
urlencodeMut(str) == str

QuoteChar(c) == IF c = ":" THEN "%3A" ELSE IF c = "/" THEN "%2F" ELSE c
urlencode(str) == [k \in 1..Len(str) |-> QuoteChar(str[k])]

parse_dataverse_contents_url(identifier) ==
    BaseUrl \o <<"/api/dataverses/">> \o IntToStr(identifier) \o <<"/contents">>

parse_dataset_content_url(identifier) ==
    BaseUrl \o <<"/api/datasets/:persistentId/versions/:">> \o Version
            \o <<"?", "persistentId", "=">> \o urlencode(identifier)

parse_permission_url(identifier) ==
    BaseUrl \o <<"/api/datasets/">> \o IntToStr(identifier) \o <<"/assignments">>

UrlOf(o, ident) ==
    IF o = "contents" THEN parse_dataverse_contents_url(ident)
    ELSE IF o = "meta" THEN parse_dataset_content_url(ident)
    ELSE parse_permission_url(ident)

\* How the repository may answer one request: a 200 with the endpoint's body,
\* a 200 with an empty JSON value, a 200 whose body is not JSON, a 200 JSON
\* object without 'data', a 404, a 500, or no answer at all (httpx.RequestError).
ReplyKinds == {"ok", "empty", "notjson", "nodata", "notfound", "error500", "transport"}

ServerReply(kind, o, ident, url) ==
    IF kind = "ok" THEN Response(200, url, Json(ServerBody(o, ident)))
    ELSE IF kind = "empty" THEN Response(200, url, Json(<<>>))
    ELSE IF kind = "notjson" THEN Response(200, url, NotJson)
    ELSE IF kind = "nodata" THEN Response(200, url, Json([status |-> "OK"]))
    ELSE IF kind = "notfound" THEN Response(404, url, Json([status |-> "ERROR"]))
    ELSE Response(500, url, Json([status |-> "ERROR"]))

\* What _async_semaphore_client returns for a request answered by kind:
\* the response, or for a caught RequestError the made-up response.
ClientReturn(kind, o, ident, url) ==
    IF kind = "transport" THEN Response(FallbackStatus, url, NotJson)
    ELSE ServerReply(kind, o, ident, url)

\* The accumulator of a batch operation's loop: its two dicts, or raised.
Acc0 == [raised |-> FALSE, success |-> EmptyDict, failure |-> EmptyDict]
Raise(acc) == [acc EXCEPT !.raised = TRUE]

\* get_dataverse_contents: one iteration of the zip loop.
ContentsStep(acc, identifier, item) ==
    IF item.status_code = HttpSuccess
    THEN IF ~item.body.isjson THEN Raise(acc)
         ELSE IF Truthy(item.body.json)
         THEN [acc EXCEPT !.success = Put(@, IntKey(identifier), item.body.json)]
         ELSE [acc EXCEPT !.failure = Put(@, IntKey(identifier),
                                [url |-> item.url, status_code |-> item.status_code])]
    ELSE [acc EXCEPT !.failure = Put(@, IntKey(identifier),
                                [url |-> item.url, status_code |-> item.status_code])]

\* get_datasets_meta: one iteration of the loop over the responses.
MetaStep(acc, item) ==
    IF item.status_code = HttpSuccess
    THEN IF ~item.body.isjson THEN Raise(acc)
         ELSE IF Truthy(item.body.json)
         THEN IF "data" \notin DOMAIN item.body.json THEN Raise(acc)
              ELSE [acc EXCEPT !.success =
                        Put(@, StrKey(item.body.json.data.datasetPersistentId), item.body.json)]
         ELSE acc
    ELSE [acc EXCEPT !.failure = Put(@, StrKey(item.url), item.status_code)]

\* id_url_dict of get_datasets_permissions
RECURSIVE IdUrlDict(_, _)
IdUrlDict(ids, i) ==
    IF i = 0 THEN EmptyDict
    ELSE Put(IdUrlDict(ids, i - 1), StrKey(parse_permission_url(ids[i])), ids[i])

\* get_datasets_permissions: one iteration of the loop over the responses.
PermissionStep(acc, id_url_dict, resp) ==
    LET identifier == Get(id_url_dict, StrKey(resp.url))
    IN  IF resp.status_code = HttpSuccess
        THEN IF ~resp.body.isjson THEN Raise(acc)
             ELSE IF Truthy(resp.body.json)
             THEN [acc EXCEPT !.success = Put(@, IntKey(identifier), resp.body.json)]
             ELSE [acc EXCEPT !.failure = Put(@, StrKey(resp.url), resp.status_code)]
        ELSE [acc EXCEPT !.failure = Put(@, StrKey(resp.url), resp.status_code)]

\* The loop of a batch operation over the gathered responses, in list order;
\* an exception in one iteration ends the call.
RECURSIVE ClassifyLoop(_, _, _, _, _)
ClassifyLoop(o, ids, responses, i, acc) ==
    IF i > Len(responses) \/ acc.raised THEN acc
    ELSE ClassifyLoop(o, ids, responses, i + 1,
            IF o = "contents" THEN ContentsStep(acc, ids[i], responses[i])
            ELSE IF o = "meta" THEN MetaStep(acc, responses[i])
            ELSE PermissionStep(acc, IdUrlDict(ids, Len(ids)), responses[i]))

\* get_dataverse_contents / get_datasets_meta / get_datasets_permissions
\* after the await: the returned pair, or raised.
Classify(o, ids, responses) == ClassifyLoop(o, ids, responses, 1, Acc0)

\* The method of MetaDataCrawler behind a batch operation.
OpName(o) ==
    IF o = "contents" THEN "get_dataverse_contents"
    ELSE IF o = "meta" THEN "get_datasets_meta"
    ELSE "get_datasets_permissions"

\* The call of a batch operation up to its await: the URL list is built and
\* async_get makes one _async_semaphore_client task per URL.
StartBatch(o, ids) ==
    /\ op' = o
    /\ id_list' = ids
    /\ url_list' = [i \in 1..Len(ids) |-> UrlOf(o, ids[i])]
    /\ task' = [i \in 1..Len(ids) |-> "created"]
    /\ results' = [i \in 1..Len(ids) |-> NoResponse]
    /\ success' = EmptyDict
    /\ failure' = EmptyDict
    /\ stages' = Append(stages, OpName(o))
    /\ UNCHANGED sem

\* A GET of the client: the URL and the headers the client was built with.
Request(url, headers) == [url |-> url, headers |-> headers]

\* The slots a task may take on entering "async with self.semaphore".
FreeSlotsMut == SemaphoreLimit

FreeSlots == sem

\* A task runs up to its first await: it takes a slot and sends the request,
\* or finds the semaphore locked and waits.
TaskEnter(i) ==
    /\ pc = "gather"
    /\ task[i] = "created"
    /\ IF FreeSlots > 0
       THEN /\ sem' = sem - 1
            /\ task' = [task EXCEPT ![i] = "inflight"]
            /\ sent' = sent (+) SetToBag({Request(url_list[i], config.HEADERS)})
       ELSE /\ task' = [task EXCEPT ![i] = "waiting"]
            /\ UNCHANGED <<sem, sent>>
    /\ UNCHANGED <<pc, op, id_list, url_list, results, success, failure,
                   mergeVars, treeVars, worldVars, default_path_ids, first_flatten, connection, runVars, stages>>

\* A waiting task is woken once a slot is free, takes it and sends the request.
TaskWake(i) ==
    /\ pc = "gather"
    /\ task[i] = "waiting"
    /\ FreeSlots > 0
    /\ sem' = sem - 1
    /\ task' = [task EXCEPT ![i] = "inflight"]
    /\ sent' = sent (+) SetToBag({Request(url_list[i], config.HEADERS)})
    /\ UNCHANGED <<pc, op, id_list, url_list, results, success, failure,
                   mergeVars, treeVars, worldVars, default_path_ids, first_flatten, connection, runVars, stages>>

\* The request of task i resolves (response or transport error); the task
\* returns its value and leaves the "async with", releasing the slot.
TaskResolveMut(i, kind) ==
    /\ pc = "gather"
    /\ task[i] = "inflight"
    /\ server[url_list[i]] \in {"any", kind}
    /\ IF kind \in {"transport", "error500"}
       THEN /\ task' = [task EXCEPT ![i] = "created"]
            /\ UNCHANGED results
       ELSE /\ task' = [task EXCEPT ![i] = "done"]
            /\ results' = [results EXCEPT ![i] = ClientReturn(kind, op, id_list[i], url_list[i])]
    /\ sem' = sem + 1
    /\ UNCHANGED <<pc, op, id_list, url_list, success, failure,
                   mergeVars, treeVars, worldVars, logVars, runVars, stages>>

\* (the slot is given back only when a response arrived)
TaskResolveLeakMut(i, kind) ==
    /\ pc = "gather"
    /\ task[i] = "inflight"
    /\ server[url_list[i]] \in {"any", kind}
    /\ results' = [results EXCEPT ![i] = ClientReturn(kind, op, id_list[i], url_list[i])]
    /\ sem' = IF kind = "transport" THEN sem ELSE sem + 1
    /\ task' = [task EXCEPT ![i] = "done"]
    /\ UNCHANGED <<pc, op, id_list, url_list, success, failure,
                   mergeVars, treeVars, worldVars, logVars, runVars, stages>>

\* (results handed over in completion order, as asyncio.as_completed would)
TaskResolveInOrderMut(i, kind) ==
    /\ pc = "gather"
    /\ task[i] = "inflight"
    /\ server[url_list[i]] \in {"any", kind}
    /\ LET n == Cardinality({j \in 1..Len(task) : task[j] = "done"})
       IN  results' = [results EXCEPT ![n + 1] = ClientReturn(kind, op, id_list[i], url_list[i])]
    /\ sem' = sem + 1
    /\ task' = [task EXCEPT ![i] = "done"]
    /\ UNCHANGED <<pc, op, id_list, url_list, success, failure,
                   mergeVars, treeVars, worldVars, logVars, runVars, stages>>

TaskResolve(i, kind) ==
    /\ pc = "gather"
    /\ task[i] = "inflight"
    /\ server[url_list[i]] \in {"any", kind}
    /\ results' = [results EXCEPT ![i] = ClientReturn(kind, op, id_list[i], url_list[i])]
    /\ sem' = sem + 1
    /\ task' = [task EXCEPT ![i] = "done"]
    /\ UNCHANGED <<pc, op, id_list, url_list, success, failure,
                   mergeVars, treeVars, worldVars, logVars, runVars, stages>>

\* asyncio.gather returns once every task is done; the batch operation then
\* classifies the responses and returns its pair, or raises.
BatchDoneMut == TRUE

BatchDone == \A i \in 1..Len(task) : task[i] = "done"

BatchReturn ==
    /\ pc = "gather"
    /\ BatchDone
    /\ LET r == Classify(op, id_list, results)
       IN  /\ pc' = IF r.raised THEN "raised" ELSE "returned"
           /\ success' = IF r.raised THEN EmptyDict ELSE r.success
           /\ failure' = IF r.raised THEN EmptyDict ELSE r.failure
    /\ UNCHANGED <<op, id_list, url_list, task, results, sem,
                   mergeVars, treeVars, worldVars, logVars, runVars, stages>>

----------------------------------------------------------------------------
(* A single batch operation on arbitrary identifiers and arbitrary answers.*)

\* A repository with MaxDs collections in a chain and dataset d in the d-th.
FetchLayout ==
    [n |-> MaxDs - 1,
     parent |-> [i \in 1..(MaxDs - 1) |-> i - 1],
     name |-> [i \in 0..(MaxDs - 1) |-> <<"c", Digits[i + 1]>>],
     id |-> [i \in 0..(MaxDs - 1) |-> 10 - i],
     haskey |-> [i \in 0..(MaxDs - 1) |-> TRUE]]

FetchPlacement == [d \in DsIds |-> d - 1]

\* The identifier lists of the three operations: collection IDs, persistent
\* IDs, dataset IDs, without repetition.
IdLists(o) ==
    {[i \in 1..Len(q) |->
        IF o = "contents" THEN FetchLayout.id[q[i] - 1]
        ELSE IF o = "meta" THEN PidOf(q[i]) ELSE q[i]]
     : q \in InjSeqs(DsIds) \ {<<>>}}

FetchUrls ==
    UNION {UNION {{UrlOf(o, ids[i]) : i \in 1..Len(ids)} : ids \in IdLists(o)}
           : o \in {"contents", "meta", "permission"}}

InitFetch ==
    /\ pc = "call"
    /\ layout = FetchLayout
    /\ collections_tree = TreeResponse(FetchLayout)
    /\ collections_tree_flatten = EmptyDict
    /\ placement = FetchPlacement
    /\ server = [u \in FetchUrls |-> "any"]
    /\ tree_reply = "none"
    /\ BatchIdle
    /\ RunIdle
    /\ MergeIdle

\* await metadata_crawler.get_...(id_list), up to the await of async_get
CallBatch ==
    /\ pc = "call"
    /\ \E o \in {"contents", "meta", "permission"} :
        \E ids \in IdLists(o) : StartBatch(o, ids)
    /\ pc' = "gather"
    /\ UNCHANGED <<mergeVars, treeVars, worldVars, logVars, runVars>>

NextFetch ==
    \/ CallBatch
    \/ \E i \in 1..Len(task) : TaskEnter(i)
    \/ \E i \in 1..Len(task) : \E kind \in ReplyKinds : TaskResolve(i, kind)
    \/ BatchReturn

SpecFetch == InitFetch /\ [][NextFetch]_vars

----------------------------------------------------------------------------
(* One large batch through HttpxClient.async_get: more URLs than slots.    *)

\* ds_id_list with MaxBatch dataset IDs
GateIds == [i \in 1..MaxBatch |-> i]

\* Every second request meets a transport error, the others a 404.
GatePlan ==
    [u \in {parse_permission_url(i) : i \in 1..MaxBatch} |->
        IF \E i \in 1..MaxBatch : i % 2 = 0 /\ u = parse_permission_url(i)
        THEN "transport" ELSE "notfound"]

InitGate ==
    /\ pc = "call"
    /\ layout = NoLayout
    /\ collections_tree = NoTree
    /\ collections_tree_flatten = EmptyDict
    /\ placement = <<>>
    /\ server = GatePlan
    /\ tree_reply = "none"
    /\ BatchIdle
    /\ RunIdle
    /\ MergeIdle

\* await metadata_crawler.get_datasets_permissions(ds_id_list), up to the
\* await of async_get
CallLargeBatch ==
    /\ pc = "call"
    /\ StartBatch("permission", GateIds)
    /\ pc' = "gather"
    /\ UNCHANGED <<mergeVars, treeVars, worldVars, logVars, runVars>>

NextGate ==
    \/ CallLargeBatch
    \/ \E i \in 1..Len(task) : TaskEnter(i)
    \/ \E i \in 1..Len(task) : TaskWake(i)
    \/ \E i \in 1..Len(task) : \E kind \in ReplyKinds : TaskResolve(i, kind)
    \/ BatchReturn

SpecGate == InitGate /\ [][NextGate]_vars

\* The same batch where the requests are answered in turn with a 200, a 404
\* and a transport error, under the scheduling of the event loop: a runnable
\* coroutine is run, a waiter is woken when a slot is free, gather returns
\* when all tasks are done; and every request sent is resolved.
GateFairPlan ==
    [u \in {parse_permission_url(i) : i \in 1..MaxBatch} |->
        IF \E i \in 1..MaxBatch : i % 3 = 0 /\ u = parse_permission_url(i) THEN "ok"
        ELSE IF \E i \in 1..MaxBatch : i % 3 = 1 /\ u = parse_permission_url(i) THEN "notfound"
        ELSE "transport"]

InitGateFair ==
    /\ pc = "call"
    /\ layout = NoLayout
    /\ collections_tree = NoTree
    /\ collections_tree_flatten = EmptyDict
    /\ placement = <<>>
    /\ server = GateFairPlan
    /\ tree_reply = "none"
    /\ BatchIdle
    /\ RunIdle
    /\ MergeIdle

\* asyncio.gather wraps the coroutines in tasks in list order and the event
\* loop runs ready callbacks first in, first out: task i takes its first step
\* after every task before it in the list.
TaskEnterInOrder(i) ==
    /\ \A j \in 1..(i - 1) : task[j] # "created"
    /\ TaskEnter(i)

NextGateFair ==
    \/ CallLargeBatch
    \/ \E i \in 1..Len(task) : TaskEnterInOrder(i)
    \/ \E i \in 1..Len(task) : TaskWake(i)
    \/ \E i \in 1..Len(task) : \E kind \in ReplyKinds : TaskResolve(i, kind)
    \/ BatchReturn

\* The event loop runs every callback that stays ready (a coroutine to start,
\* a waiter to wake when a slot is free), and every request sent is resolved.
GateFairness ==
    /\ WF_vars(CallLargeBatch)
    /\ WF_vars(\E i \in 1..Len(task) : TaskEnterInOrder(i))
    /\ WF_vars(\E i \in 1..Len(task) : TaskWake(i))
    /\ WF_vars(\E i \in 1..Len(task) : \E kind \in ReplyKinds : TaskResolve(i, kind))

\* asyncio.gather returns once every task is done: the batch does not stay
\* for ever at the await with all its tasks done (the weak fairness of
\* BatchReturn, which is enabled in exactly these states).
GatherCompletes == []<>(~(pc = "gather" /\ BatchDone))

SpecGateFair == InitGateFair /\ [][NextGateFair]_vars /\ GateFairness /\ GatherCompletes

----------------------------------------------------------------------------
(* The orchestrator: main and main_crawler (main.py).                      *)

\* The repository of a run: a root collection holding one sub-collection;
\* dataset 1 lies in the sub-collection, the others in the root.
RunLayout ==
    [n |-> 1, parent |-> <<0>>,
     name |-> [i \in 0..1 |-> IF i = 0 THEN <<"r">> ELSE <<"a">>],
     id |-> [i \in 0..1 |-> 10 - i],
     haskey |-> [i \in 0..1 |-> i = 0]]

RunPlacement == [d \in DsIds |-> IF d = 1 THEN 1 ELSE 0]

\* Or all datasets lie in one of the two collections and the other is empty.
RunPlacements == {RunPlacement} \cup {[d \in DsIds |-> i] : i \in 0..1}

RunUrls ==
    {parse_dataverse_contents_url(c) : c \in CollectionIds(RunLayout)}
    \cup {parse_dataset_content_url(PidOf(d)) : d \in DsIds}
    \cup {parse_permission_url(d) : d \in DsIds}

\* The repository answers every request well, but for at most one URL.
RunPlans ==
    {[v \in RunUrls |-> IF v = u THEN kind ELSE "ok"] : u \in RunUrls, kind \in ReplyKinds}

\* How the tree request may be answered: as a batch request may, or with a
\* 200 whose body carries a status other than "OK".
TreeReplyKinds == ReplyKinds \cup {"refused"}

\* The command line and the environment.
Configs ==
    {[dvdfds_matadata |-> d, permission |-> p, failed |-> f, empty_dv |-> e,
      spreadsheet |-> sp, API_KEY |-> key, COLLECTION_ALIAS |-> <<"root">>,
      HEADERS |-> LoadedHeaders(key)] :
        d \in BOOLEAN, p \in BOOLEAN, f \in BOOLEAN, e \in BOOLEAN, sp \in BOOLEAN,
        key \in {NoneStr, Str(<<"None">>), Str(<<"key">>)}}

parse_tree_url(parent_alias) ==
    IF parent_alias # <<>>
    THEN BaseUrl \o <<"/api/info/metrics/tree", "?", "parentAlias", "=">>
                 \o urlencode(config.COLLECTION_ALIAS)
    ELSE BaseUrl \o <<"/api/info/metrics/tree">>

TreeReply(kind, url) ==
    IF kind = "ok" THEN Response(200, url, Json(TreeResponse(layout)))
    ELSE IF kind = "refused" THEN Response(200, url, Json([status |-> "ERROR"]))
    ELSE ServerReply(kind, "tree", None, url)

IsNone(resp) == resp.status_code = 0

\* HttpxClient.sync_get for a request answered by kind with reply.
sync_get(kind, url, reply) ==
    IF kind = "transport" THEN Response(FallbackStatus, url, NotJson)
    ELSE IF reply.status_code = HttpSuccess THEN reply ELSE NoResponse

\* MetaDataCrawler.get_collections_tree, given what sync_get returned.
get_collections_treeMut(resp) == resp

get_collections_tree(resp) ==
    IF ~IsNone(resp) /\ resp.status_code = HttpSuccess THEN resp ELSE NoResponse

\* value['data'] of add_path_to_dataverse_contents raises KeyError.
AddPathRaises(des_dict, ref_dict) ==
    \E k \in 1..Len(des_dict) :
        Has(ref_dict, des_dict[k].k) /\ "data" \notin DOMAIN des_dict[k].v

\* One value of des_dict in add_path_to_dataverse_contents.
AddPathToValue(value, ref) ==
    IF value.data # <<>>
    THEN [value EXCEPT !.data =
            [j \in 1..Len(value.data) |->
                SetField(SetField(value.data[j], "path", ref.path), "pathIds", ref.pathIds)]]
    ELSE [value EXCEPT !.data = <<[path |-> ref.path], [pathIds |-> ref.pathIds]>>]

add_path_to_dataverse_contents(des_dict, ref_dict) ==
    [k \in 1..Len(des_dict) |->
        IF Has(ref_dict, des_dict[k].k)
        THEN [k |-> des_dict[k].k, v |-> AddPathToValue(des_dict[k].v, Get(ref_dict, des_dict[k].k))]
        ELSE des_dict[k]]

\* jmespath data[?type=='dataset'] of one contents body.
DatasetItemsMut(body) == <<>>

DatasetItems(body) ==
    IF "data" \in DOMAIN body
    THEN SelectSeq(body.data, LAMBDA item : "type" \in DOMAIN item /\ item.type = "dataset")
    ELSE <<>>

\* dict_to_append of get_pids for one item of the search result.
PidEntryMut(item, cfg) ==
    [datasetPersistentId |-> item.identifier,
     datasetId |-> item.id,
     CollectionAlias |-> cfg.COLLECTION_ALIAS,
     CollectionID |-> cfg.COLLECTION_ID,
     path |-> NoneStr,
     pathIds |-> <<>>]

PidEntry(item, cfg) ==
    [datasetPersistentId |-> item.protocol \o <<":">> \o item.authority \o <<"/">> \o item.identifier,
     datasetId |-> item.id,
     CollectionAlias |-> cfg.COLLECTION_ALIAS,
     CollectionID |-> cfg.COLLECTION_ID,
     path |-> IF "path" \in DOMAIN item /\ item.path # <<>>
              THEN Str(<<"/">> \o item.path) ELSE NoneStr,
     pathIds |-> IF "pathIds" \in DOMAIN item THEN item.pathIds ELSE <<>>]

RECURSIVE PidItemsLoop(_, _, _, _)
PidItemsLoop(result, j, cfg, write_dict) ==
    IF j > Len(result) THEN write_dict
    ELSE PidItemsLoop(result, j + 1, cfg,
            Put(write_dict, StrKey(IntToStr(result[j].id)), PidEntry(result[j], cfg)))

\* get_pids: the loop over read_dict from its k-th entry on.
RECURSIVE GetPidsLoop(_, _, _, _)
GetPidsLoop(read_dict, k, cfg, acc) ==
    IF k > Len(read_dict) THEN acc
    ELSE LET result == DatasetItems(read_dict[k].v)
         IN  GetPidsLoop(read_dict, k + 1, cfg,
                IF result # <<>>
                THEN [acc EXCEPT !.write_dict = PidItemsLoop(result, 1, cfg, @)]
                ELSE [acc EXCEPT !.empty_dv = Append(@, read_dict[k].k)])

get_pids(read_dict, cfg) ==
    GetPidsLoop(read_dict, 1, cfg, [empty_dv |-> <<>>, write_dict |-> EmptyDict])

\* "pid in k" for strings given as sequences of their pieces.
Contains(hay, needle) ==
    \E off \in 0..(Len(hay) - Len(needle)) :
        \A j \in 1..Len(needle) : hay[off + j] = needle[j]

\* Parsing.rm_dd_from_failed_uris
rm_dd_from_failed_urisMut(failed_uris, dd) == failed_uris

rm_dd_from_failed_uris(failed_uris, dd) ==
    SelectSeq(failed_uris,
              LAMBDA e : ~\E j \in 1..Len(dd) : Contains(e.k.s, dd[j].v.datasetPersistentId))

Export(name, content) == [file |-> name, content |-> content]

InitRun ==
    /\ pc = "start"
    /\ layout = RunLayout
    /\ placement \in RunPlacements
    /\ server \in RunPlans
    /\ tree_reply \in TreeReplyKinds
    /\ collections_tree = NoTree
    /\ collections_tree_flatten = EmptyDict
    /\ MergeIdle
    /\ BatchIdle
    /\ config \in Configs
    /\ response = NoResponse
    /\ dataverse_contents = EmptyDict
    /\ failed_dataverse_contents = EmptyDict
    /\ empty_dv_dict = <<>>
    /\ failed_metadata_uris = EmptyDict
    /\ failed_permission_uris = EmptyDict
    /\ exports = <<>>
    /\ stages = <<>>
    /\ connection = NoConnection
    /\ sent = EmptyBag
    /\ default_path_ids = <<>>
    /\ first_flatten = EmptyDict

\* main: the checks of the options before anything is requested
ValidateOptions ==
    /\ pc = "start"
    /\ pc' = IF config.spreadsheet /\ ~config.dvdfds_matadata THEN "exited"
             ELSE IF ~config.dvdfds_matadata /\ ~config.permission THEN "exited"
             ELSE IF (config.permission /\ config.API_KEY.none)
                     \/ config.API_KEY = Str(<<"None">>) THEN "exited"
             ELSE "connect"
    /\ UNCHANGED <<mergeVars, treeVars, worldVars, logVars, batchVars, runVars, stages>>

\* How the repository may answer a probe of /api/info/version.
ProbeReplies == {"ok", "unauthorized", "transport"}

\* HttpxClient.authenticate_api_key / authenticate_dv_connection: the probe
\* succeeds when a response arrives and its status is 200.
authenticate_api_key(reply) ==
    [probe |-> "authenticate_api_key", key |-> TRUE, ok |-> reply = "ok"]
authenticate_dv_connection(reply) ==
    [probe |-> "authenticate_dv_connection", key |-> FALSE, ok |-> reply = "ok"]

\* validate_connection: the probes made, whether BadParameter is raised, and
\* the value returned otherwise.
validate_connectionMut(cfg, auth_reply, public_reply) ==
    IF ~cfg.API_KEY.none /\ cfg.API_KEY.s # <<>>
    THEN [probes |-> <<authenticate_api_key(auth_reply)>>,
          raised |-> ~authenticate_api_key(auth_reply).ok,
          result |-> authenticate_api_key(auth_reply).ok]
    ELSE [probes |-> <<authenticate_dv_connection(public_reply)>>,
          raised |-> ~authenticate_dv_connection(public_reply).ok,
          result |-> FALSE]

validate_connection(cfg, auth_reply, public_reply) ==
    LET a == authenticate_api_key(auth_reply)
        p == authenticate_dv_connection(public_reply)
    IN  IF ~cfg.API_KEY.none /\ cfg.API_KEY.s # <<>> /\ a.ok
        THEN [probes |-> <<a>>, raised |-> FALSE, result |-> TRUE]
        ELSE [probes |-> (IF ~cfg.API_KEY.none /\ cfg.API_KEY.s # <<>> THEN <<a>> ELSE <<>>) \o <<p>>,
              raised |-> ~p.ok,
              result |-> FALSE]

\* str(api_key).lower()
Lower(str) == [i \in 1..Len(str) |-> IF str[i] = "None" THEN "none" ELSE str[i]]

\* MetaDataCrawler._define_headers
_define_headersMut(cfg) == cfg

_define_headers(cfg) ==
    [cfg EXCEPT !.HEADERS =
        IF ~cfg.API_KEY.none /\ cfg.API_KEY.s # <<>> /\ Lower(cfg.API_KEY.s) # <<"none">>
        THEN ("X-Dataverse-key" :> cfg.API_KEY.s) @@ AcceptJson
        ELSE AcceptJson]

\* main: connection_status, auth_status = func.check_connection(config); a
\* failed check exits, a failed authentication drops the key and the
\* permission crawl; then metadata_crawler = MetaDataCrawler(config)
CheckConnection ==
    /\ pc = "connect"
    /\ \E auth_reply \in ProbeReplies, public_reply \in ProbeReplies :
        LET r == validate_connection(config, auth_reply, public_reply)
            connection_status == ~r.raised
            auth_status == r.result
        IN  /\ connection' = [probes |-> r.probes,
                              connection_status |-> connection_status,
                              auth_status |-> auth_status]
            /\ IF ~connection_status
               THEN pc' = "exited" /\ UNCHANGED config
               ELSE /\ pc' = "tree"
                    /\ config' = _define_headers(
                                    IF auth_status THEN config
                                    ELSE [config EXCEPT !.API_KEY = NoneStr, !.permission = FALSE])
    /\ UNCHANGED <<mergeVars, treeVars, worldVars, default_path_ids, first_flatten, sent, batchVars, response, dataverse_contents,
                   failed_dataverse_contents, empty_dv_dict, failed_metadata_uris,
                   failed_permission_uris, exports, stages>>

\* main: response = metadata_crawler.get_collections_tree(collection_alias)
FetchTree ==
    /\ pc = "tree"
    /\ LET url == parse_tree_url(config.COLLECTION_ALIAS)
       IN  /\ response' = get_collections_tree(sync_get(tree_reply, url, TreeReply(tree_reply, url)))
           /\ sent' = sent (+) SetToBag({Request(url, config.HEADERS)})
    /\ stages' = Append(stages, "get_collections_tree")
    /\ pc' = "tree_response"
    /\ UNCHANGED <<mergeVars, treeVars, worldVars, default_path_ids, first_flatten, connection, batchVars, config, dataverse_contents,
                   failed_dataverse_contents, empty_dv_dict, failed_metadata_uris,
                   failed_permission_uris, exports>>

\* main: the None check, response.json() and the status check
CheckTree ==
    /\ pc = "tree_response"
    /\ IF IsNone(response)
       THEN pc' = "exited" /\ UNCHANGED <<collections_tree, config>>
       ELSE IF ~response.body.isjson \/ "status" \notin DOMAIN response.body.json
       THEN pc' = "crashed" /\ UNCHANGED <<collections_tree, config>>
       ELSE IF response.body.json.status # "OK"
       THEN pc' = "exited" /\ collections_tree' = response.body.json /\ UNCHANGED config
       ELSE IF "data" \notin DOMAIN response.body.json
       THEN pc' = "crashed" /\ collections_tree' = response.body.json /\ UNCHANGED config
       ELSE /\ collections_tree' = response.body.json
            /\ config' = [f \in DOMAIN config \cup {"COLLECTION_ID", "COLLECTION_NAME"} |->
                            IF f = "COLLECTION_ID" THEN response.body.json.data.id
                            ELSE IF f = "COLLECTION_ALIAS" THEN response.body.json.data.alias
                            ELSE IF f = "COLLECTION_NAME" THEN response.body.json.data.name
                            ELSE config[f]]
            /\ pc' = "tree_fetched"
    /\ UNCHANGED <<mergeVars, layout, collections_tree_flatten, worldVars, logVars, batchVars, response,
                   dataverse_contents, failed_dataverse_contents, empty_dv_dict,
                   failed_metadata_uris, failed_permission_uris, exports, stages>>

\* main_crawler: collection_id_list and the call of get_dataverse_contents
CallContents ==
    /\ pc = "flattened"
    /\ StartBatch("contents",
                  [k \in 1..Len(collections_tree_flatten) |-> collections_tree_flatten[k].v.id]
                  \o <<config.COLLECTION_ID>>)
    /\ pc' = "gather"
    /\ UNCHANGED <<mergeVars, treeVars, worldVars, logVars, runVars>>

\* main_crawler: the contents pair is received, the paths are added and
\* get_pids extracts the dataset references
ExtractPids ==
    /\ pc = "returned"
    /\ op = "contents"
    /\ IF AddPathRaises(success, collections_tree_flatten)
       THEN /\ pc' = "crashed"
            /\ dataverse_contents' = success
            /\ failed_dataverse_contents' = failure
            /\ UNCHANGED <<ds_dict, empty_dv_dict, stages>>
       ELSE LET contents == add_path_to_dataverse_contents(success, collections_tree_flatten)
                r == get_pids(contents, config)
            IN  /\ dataverse_contents' = contents
                /\ failed_dataverse_contents' = failure
                /\ empty_dv_dict' = r.empty_dv
                /\ ds_dict' = r.write_dict
                /\ stages' = Append(stages, "get_pids")
                /\ pc' = "pids_extracted"
    /\ UNCHANGED <<meta_dict, permission_dict, pid_dict_dd, pre, treeVars, worldVars, logVars, batchVars,
                   config, response, failed_metadata_uris, failed_permission_uris, exports>>

\* main_crawler, if dvdfds_matadata: pid_list and the call of get_datasets_meta
CallMeta ==
    /\ pc = "pids_extracted"
    /\ config.dvdfds_matadata
    /\ StartBatch("meta", [k \in 1..Len(ds_dict) |-> ds_dict[k].v.datasetPersistentId])
    /\ pc' = "gather"
    /\ UNCHANGED <<mergeVars, treeVars, worldVars, logVars, runVars>>

\* main_crawler, if not dvdfds_matadata
SkipMeta ==
    /\ pc = "pids_extracted"
    /\ ~config.dvdfds_matadata
    /\ pc' = "meta_done"
    /\ UNCHANGED <<mergeVars, treeVars, worldVars, logVars, batchVars, runVars, stages>>

\* (add_path_info pops from ds_dict itself: ds_dict_copy = ds_dict)
JoinMetadataMut ==
    /\ pc = "returned"
    /\ op = "meta"
    /\ LET rekeyed == replace_key_with_dataset_id(success)
           r == add_path_info(rekeyed, ds_dict)
       IN  /\ meta_dict' = r.meta
           /\ pid_dict_dd' = r.pending
           /\ ds_dict' = r.pending
           /\ failed_metadata_uris' = rm_dd_from_failed_uris(failure, r.pending)
           /\ pre' = [pre EXCEPT !.meta = rekeyed, !.refs = ds_dict]
    /\ stages' = stages \o <<"replace_key_with_dataset_id", "add_path_info">>
    /\ pc' = "path_joined"
    /\ UNCHANGED <<permission_dict, treeVars, worldVars, logVars, batchVars, config, response,
                   dataverse_contents, failed_dataverse_contents, empty_dv_dict,
                   failed_permission_uris, exports>>

\* main_crawler: the metadata pair is received, re-keyed and joined with the
\* references; the pending references are taken out of the failed URIs
JoinMetadata ==
    /\ pc = "returned"
    /\ op = "meta"
    /\ LET rekeyed == replace_key_with_dataset_id(success)
           r == add_path_info(rekeyed, ds_dict)
       IN  /\ meta_dict' = r.meta
           /\ pid_dict_dd' = r.pending
           /\ failed_metadata_uris' = rm_dd_from_failed_uris(failure, r.pending)
           /\ pre' = [pre EXCEPT !.meta = rekeyed, !.refs = ds_dict]
    /\ stages' = stages \o <<"replace_key_with_dataset_id", "add_path_info">>
    /\ pc' = "path_joined"
    /\ UNCHANGED <<ds_dict, permission_dict, treeVars, worldVars, logVars, batchVars, config, response,
                   dataverse_contents, failed_dataverse_contents, empty_dv_dict,
                   failed_permission_uris, exports>>

\* main_crawler: pid_dict_dd and, if failed, failed_metadata_uris are exported
ExportPendingMut ==
    /\ pc = "path_joined"
    /\ exports' = exports \o <<Export("pid_dict_dd", pid_dict_dd)>>
                  \o (IF config.failed
                      THEN <<Export("failed_metadata_uris", failed_metadata_uris)>> ELSE <<>>)
                  \o (IF meta_dict # EmptyDict THEN <<Export("ds_metadata", meta_dict)>> ELSE <<>>)
    /\ pc' = "meta_done"
    /\ UNCHANGED <<mergeVars, treeVars, worldVars, logVars, batchVars, config, response,
                   dataverse_contents, failed_dataverse_contents, empty_dv_dict,
                   failed_metadata_uris, failed_permission_uris, stages>>

ExportPending ==
    /\ pc = "path_joined"
    /\ exports' = exports \o <<Export("pid_dict_dd", pid_dict_dd)>>
                  \o (IF config.failed
                      THEN <<Export("failed_metadata_uris", failed_metadata_uris)>> ELSE <<>>)
    /\ pc' = "meta_done"
    /\ UNCHANGED <<mergeVars, treeVars, worldVars, logVars, batchVars, config, response,
                   dataverse_contents, failed_dataverse_contents, empty_dv_dict,
                   failed_metadata_uris, failed_permission_uris, stages>>

\* main_crawler, if permission: ds_id_list and the call of get_datasets_permissions
CallPermission ==
    /\ pc = "meta_done"
    /\ config.permission
    /\ StartBatch("permission", [k \in 1..Len(ds_dict) |-> ds_dict[k].v.datasetId])
    /\ pc' = "gather"
    /\ UNCHANGED <<mergeVars, treeVars, worldVars, logVars, runVars>>

\* main_crawler, if not permission
SkipPermission ==
    /\ pc = "meta_done"
    /\ ~config.permission
    /\ pc' = "permission_done"
    /\ UNCHANGED <<mergeVars, treeVars, worldVars, logVars, batchVars, runVars, stages>>

\* main_crawler: the permission pair is received; without dvdfds_matadata
\* permission_dict and pid_dict are exported
ReceivePermissionMut ==
    /\ pc = "returned"
    /\ op = "permission"
    /\ permission_dict' = success
    /\ failed_permission_uris' = failure
    /\ exports' = IF ~config.dvdfds_matadata
                  THEN exports \o <<Export("permission_dict", success),
                                    Export("pid_dict", pid_dict_dd)>>
                  ELSE exports
    /\ pc' = "permission_done"
    /\ UNCHANGED <<meta_dict, ds_dict, pid_dict_dd, pre, treeVars, worldVars, logVars, batchVars,
                   config, response, dataverse_contents, failed_dataverse_contents,
                   empty_dv_dict, failed_metadata_uris, stages>>

ReceivePermission ==
    /\ pc = "returned"
    /\ op = "permission"
    /\ permission_dict' = success
    /\ failed_permission_uris' = failure
    /\ exports' = IF ~config.dvdfds_matadata
                  THEN exports \o <<Export("permission_dict", success), Export("pid_dict", ds_dict)>>
                  ELSE exports
    /\ pc' = "permission_done"
    /\ UNCHANGED <<meta_dict, ds_dict, pid_dict_dd, pre, treeVars, worldVars, logVars, batchVars, config,
                   response, dataverse_contents, failed_dataverse_contents, empty_dv_dict,
                   failed_metadata_uris, stages>>

\* main_crawler: meta_dict = func.add_permission_info(meta_dict, ...)
CombinePermission ==
    /\ pc = "permission_done"
    /\ LET arg == IF permission_dict # EmptyDict
                  THEN SomeDict(permission_dict) ELSE NoneDict
           r == add_permission_info(meta_dict, arg)
       IN  /\ meta_dict' = r.meta
           /\ permission_dict' = IF arg.isdict THEN r.perms ELSE permission_dict
           /\ pre' = [pre EXCEPT !.meta = meta_dict, !.perms = arg]
    /\ stages' = Append(stages, "add_permission_info")
    /\ pc' = "combined"
    /\ UNCHANGED <<ds_dict, pid_dict_dd, treeVars, worldVars, logVars, batchVars, runVars>>

\* main_crawler: ds_metadata, empty_dv and the CSV file are exported
ExportMetadata ==
    /\ pc = "combined"
    /\ exports' = exports
                  \o (IF meta_dict # EmptyDict THEN <<Export("ds_metadata", meta_dict)>> ELSE <<>>)
                  \o (IF config.empty_dv THEN <<Export("empty_dv", empty_dv_dict)>> ELSE <<>>)
                  \o (IF config.spreadsheet THEN <<Export("csv", meta_dict)>> ELSE <<>>)
    /\ pc' = "done"
    /\ UNCHANGED <<mergeVars, treeVars, worldVars, logVars, batchVars, config, response,
                   dataverse_contents, failed_dataverse_contents, empty_dv_dict,
                   failed_metadata_uris, failed_permission_uris, stages>>

Next ==
    \/ ValidateOptions
    \/ CheckConnection
    \/ FetchTree
    \/ CheckTree
    \/ Flatten
    \/ CallContents
    \/ \E i \in 1..Len(task) : TaskEnter(i)
    \/ \E i \in 1..Len(task) : \E kind \in ReplyKinds : TaskResolve(i, kind)
    \/ BatchReturn
    \/ ExtractPids
    \/ CallMeta
    \/ SkipMeta
    \/ JoinMetadata
    \/ ExportPending
    \/ CallPermission
    \/ SkipPermission
    \/ ReceivePermission
    \/ CombinePermission
    \/ ExportMetadata

Spec == InitRun /\ [][Next]_vars

----------------------------------------------------------------------------
(* Parsing.rm_dd_from_failed_uris applied to arbitrary failure maps.       *)

\* Failure maps of get_datasets_meta's shape, URL to status code: per dataset
\* no key, or a key that carries the persistent ID as it is written, or the
\* key get_datasets_meta builds, in which the ID is percent-encoded.
FailedDicts ==
    {[i \in 1..Len(Ascending(DOMAIN f)) |->
        [k |-> StrKey(IF f[Ascending(DOMAIN f)[i]].quoted
                      THEN parse_dataset_content_url(PidOf(Ascending(DOMAIN f)[i]))
                      ELSE BaseUrl \o <<"/api/datasets/:persistentId/versions/:">> \o Version
                               \o <<"?", "persistentId", "=">> \o PidOf(Ascending(DOMAIN f)[i])),
         v |-> f[Ascending(DOMAIN f)[i]].status]]
     : f \in UNION {[S -> [quoted : BOOLEAN, status : {404, FallbackStatus}]] : S \in SUBSET DsIds}}

InitReconcile ==
    /\ pc = "joined"
    /\ pid_dict_dd \in RefDicts
    /\ failed_metadata_uris \in FailedDicts
    /\ meta_dict = EmptyDict
    /\ ds_dict = EmptyDict
    /\ permission_dict = EmptyDict
    /\ pre = [meta |-> EmptyDict, refs |-> EmptyDict, perms |-> NoneDict]
    /\ TreeIdle
    /\ WorldIdle
    /\ BatchIdle
    /\ config = NoConfig
    /\ response = NoResponse
    /\ dataverse_contents = EmptyDict
    /\ failed_dataverse_contents = EmptyDict
    /\ empty_dv_dict = <<>>
    /\ failed_permission_uris = EmptyDict
    /\ exports = <<>>
    /\ stages = <<>>
    /\ connection = NoConnection
    /\ sent = EmptyBag
    /\ default_path_ids = <<>>
    /\ first_flatten = EmptyDict

\* failed_metadata_uris = func.rm_dd_from_failed_uris(failed_metadata_uris, pid_dict_dd)
RemoveDd ==
    /\ pc = "joined"
    /\ failed_metadata_uris' = rm_dd_from_failed_uris(failed_metadata_uris, pid_dict_dd)
    /\ pre' = [pre EXCEPT !.meta = failed_metadata_uris, !.refs = pid_dict_dd]
    /\ pc' = "reconciled"
    /\ UNCHANGED <<meta_dict, ds_dict, permission_dict, pid_dict_dd, treeVars, worldVars, logVars,
                   batchVars, config, response, dataverse_contents, failed_dataverse_contents,
                   empty_dv_dict, failed_permission_uris, exports, stages>>

NextReconcile == RemoveDd

SpecReconcile == InitReconcile /\ [][NextReconcile]_vars

----------------------------------------------------------------------------
(* Properties of the fetch layer                                           *)

InFlight == {i \in 1..Len(task) : task[i] = "inflight"}
Waiting == {i \in 1..Len(task) : task[i] = "waiting"}

\* C3 (concurrency bound): in every interleaving of request starts and
\* completions of a batch larger than the gate, the requests that hold a slot
\* of the gate number at most 10 and exactly as many as the slots taken; a
\* request waits only while all 10 slots are taken or a released slot is
\* there for it to take.
C3_ConcurrencyBound ==
    /\ Cardinality(InFlight) <= SemaphoreLimit
    /\ sem = SemaphoreLimit - Cardinality(InFlight)
    /\ sem >= 0

\* All ten slots are taken while a further request of the batch waits.
C3_Witness ==
    /\ pc = "gather"
    /\ Len(task) > SemaphoreLimit
    /\ Cardinality(InFlight) = SemaphoreLimit
    /\ Waiting # {}

\* What the operation makes of the i-th request taken by itself.
Alone(i) == Classify(op, <<id_list[i]>>, <<results[i]>>)

Includes(d, part) == \A k \in 1..Len(part) : Has(d, part[k].k) /\ Get(d, part[k].k) = part[k].v

\* C4 (per-item failures are never raised): whatever each request of a batch
\* met, the batch operation returns its pair without raising, and each request
\* is classified in the pair as it is when it is the only one of the batch.
C4_AsStated ==
    pc \in {"returned", "raised"} =>
        /\ pc = "returned"
        /\ \A i \in 1..Len(id_list) :
            ~Alone(i).raised =>
                /\ Includes(success, Alone(i).success)
                /\ Includes(failure, Alone(i).failure)

GoodContents(r) == r.status_code = HttpSuccess /\ r.body.isjson /\ Truthy(r.body.json)

\* C5 (contents classification): after get_dataverse_contents, a requested
\* collection ID is a key of the success map iff its response is a 200 with a
\* non-empty JSON body, and otherwise a key of the failure map with its url
\* and status code; the key sets are disjoint and together the requested IDs.
C5_AsStated ==
    (op = "contents" /\ pc \in {"returned", "raised"}) =>
        /\ \A i \in 1..Len(id_list) :
            /\ Has(success, IntKey(id_list[i])) <=> GoodContents(results[i])
            /\ ~GoodContents(results[i]) =>
                /\ Has(failure, IntKey(id_list[i]))
                /\ Get(failure, IntKey(id_list[i])) =
                      [url |-> url_list[i], status_code |-> results[i].status_code]
        /\ Keys(success) \cap Keys(failure) = {}
        /\ Keys(success) \cup Keys(failure) = {IntKey(id_list[i]) : i \in 1..Len(id_list)}

\* C6 (metadata accounting): after get_datasets_meta has returned, each
\* requested persistent ID is a key of the success map or its request URL is
\* a key of the failure map, and never both.
C6_AsStated ==
    (op = "meta" /\ pc = "returned") =>
        \A i \in 1..Len(id_list) :
            Has(success, StrKey(id_list[i])) # Has(failure, StrKey(url_list[i]))

----------------------------------------------------------------------------
(* Properties of the orchestrator (checked under Spec).                    *)

\* The tree request has been made and its outcome is one the run cannot use:
\* no response, an empty or unreadable body, or a status other than "OK".
TreeRequested == stages # <<>>

TreeFailed ==
    /\ TreeRequested
    /\ \/ IsNone(response)
       \/ ~response.body.isjson
       \/ ~Truthy(response.body.json)
       \/ response.body.json.status # "OK"

Aborted == pc \in {"exited", "crashed"}

\* C7 (tree fetch is fatal on failure): get_collections_tree hands main a
\* response only if its status is 200, and None for a non-200 answer or a
\* transport error; when it is None, or the tree body is empty or its status is
\* not "OK", the next step of the run is its end, and nothing was or is
\* flattened, requested from the contents, metadata or permission endpoints,
\* or exported.
C7_TreeFetchFatal ==
    /\ [](~IsNone(response) => response.status_code = HttpSuccess)
    /\ []((TreeRequested
             /\ tree_reply \in {"notfound", "error500", "transport"}) => IsNone(response))
    /\ [](TreeFailed =>
            /\ pc = "tree_response" \/ Aborted
            /\ stages = <<"get_collections_tree">>
            /\ collections_tree_flatten = EmptyDict
            /\ op = "none" /\ url_list = <<>> /\ task = <<>>
            /\ exports = <<>>)
    /\ [][(TreeFailed /\ pc = "tree_response") => Aborted']_vars
    /\ [][Aborted => UNCHANGED vars]_vars

\* A run whose tree request met a transport error has ended without a tree.
C7_Witness ==
    /\ tree_reply = "transport"
    /\ pc = "exited"
    /\ IsNone(response)
    /\ stages = <<"get_collections_tree">>

\* The stage of the linear state machine a call belongs to: tree fetch,
\* flatten, contents fetch, PID extraction, metadata fetch, permission fetch,
\* and merge (the join/merge engine).
StageOf(call) ==
    IF call = "get_collections_tree" THEN 1
    ELSE IF call = "flatten_collection" THEN 2
    ELSE IF call = "get_dataverse_contents" THEN 3
    ELSE IF call = "get_pids" THEN 4
    ELSE IF call = "get_datasets_meta" THEN 5
    ELSE IF call = "get_datasets_permissions" THEN 6
    ELSE 7

\* The calls of a full run in the order main_crawler makes them.
CallOrder ==
    <<"get_collections_tree", "flatten_collection", "get_dataverse_contents", "get_pids",
      "get_datasets_meta", "replace_key_with_dataset_id", "add_path_info",
      "get_datasets_permissions", "add_permission_info">>

PlaceOf(call) == CHOOSE k \in 1..Len(CallOrder) : CallOrder[k] = call

AllResolved == \A i \in 1..Len(task) : task[i] = "done"

\* C8 as stated (linear stage order): the stages of a run occur in the order
\* tree fetch, flatten, contents fetch, PID extraction, metadata fetch,
\* permission fetch, merge: no stage comes after a later one and none of the
\* stages before the merge is entered twice.
C8_AsStated ==
    \A i, j \in 1..Len(stages) :
        i < j =>
            /\ StageOf(stages[i]) <= StageOf(stages[j])
            /\ StageOf(stages[i]) = StageOf(stages[j]) => StageOf(stages[i]) = 7

\* C8 (stage order of main_crawler): the calls of a run occur only in the
\* order tree fetch, flatten, contents fetch, PID extraction, metadata fetch
\* followed by the re-keying and the path join of the merge engine, permission
\* fetch, permission merge; none is made twice and none after a later one.  A
\* batch's pair is used, and the next batch's first request is issued, only
\* when every request of the batch has resolved.
C8_StageOrder ==
    /\ [](\A i, j \in 1..Len(stages) : i < j => PlaceOf(stages[i]) < PlaceOf(stages[j]))
    /\ [](pc = "returned" => AllResolved)
    /\ [][op' # op => AllResolved]_vars
    /\ [][\A i \in 1..Len(task) :
            (pc = "gather" /\ pc' = "gather" /\ task[i] = "created" /\ task'[i] = "inflight")
                => op' = op]_vars

\* A run with both kinds of metadata has ended after all nine calls.
C8_Witness ==
    /\ pc = "done"
    /\ stages = CallOrder

----------------------------------------------------------------------------
(* Properties of the merge engine (checked under SpecMerge).               *)

\* The metadata records of meta whose data.datasetId is n.
RecordsWithId(meta, n) == {j \in 1..Len(meta) : DatasetIdOf(meta[j].v) = n}

\* C1: join completeness of add_path_info.  After the call, a reference is
\* absent from the pending set exactly when some metadata record carries its
\* numeric key as data.datasetId, and then such a record has that very
\* reference as path_info; every other reference is pending, unchanged, and
\* nothing else is pending.
C1_JoinCompleteness ==
    pc = "joined" =>
        /\ Keys(pid_dict_dd) \subseteq Keys(pre.refs)
        /\ \A i \in 1..Len(pre.refs) :
            LET ref == pre.refs[i]
                n == StrToInt(ref.k.s)
                matched == RecordsWithId(pre.meta, n) # {}
            IN  /\ ~Has(pid_dict_dd, ref.k) <=> matched
                /\ matched =>
                     \E j \in RecordsWithId(meta_dict, n) :
                        /\ "path_info" \in DOMAIN meta_dict[j].v
                        /\ meta_dict[j].v.path_info = ref.v
                /\ ~matched =>
                     /\ Has(pid_dict_dd, ref.k)
                     /\ Get(pid_dict_dd, ref.k) = ref.v

\* C1 witness: a join in which one reference was matched and removed and
\* another stayed pending.
C1_Witness ==
    /\ pc = "joined"
    /\ \E i, j \in 1..Len(pre.refs) :
        /\ ~Has(pid_dict_dd, pre.refs[i].k)
        /\ Has(pid_dict_dd, pre.refs[j].k)
    /\ \E j \in 1..Len(meta_dict) : "path_info" \in DOMAIN meta_dict[j].v

\* C2: permission sentinel.  After add_permission_info every record has a
\* permission_info, and a record whose dataset ID has no entry in the
\* permission map passed in (None and empty included) has the sentinel.
C2_PermissionSentinel ==
    pc = "merged" =>
        \A j \in 1..Len(meta_dict) :
            LET rec == meta_dict[j].v
                hasEntry == /\ pre.perms.isdict
                            /\ \E e \in 1..Len(pre.perms.d) :
                                   pre.perms.d[e].k.i = DatasetIdOf(rec)
            IN  /\ "permission_info" \in DOMAIN rec
                /\ ~hasEntry =>
                     /\ rec.permission_info.status = "NA"
                     /\ rec.permission_info.data = <<>>

\* C2 witness: a merge with a permission map that covers one record and not
\* another, so one record carries fetched permissions and one the sentinel.
C2_Witness ==
    /\ pc = "merged"
    /\ pre.perms.isdict
    /\ \E i, j \in 1..Len(meta_dict) :
        /\ meta_dict[i].v.permission_info = Sentinel
        /\ meta_dict[j].v.permission_info # Sentinel

----------------------------------------------------------------------------
(* Properties of the tree flattener (checked under SpecFlatten).           *)

\* Depth of node i below the root (a child of the root has depth 1).
RECURSIVE Depth(_, _)
Depth(L, i) == IF i = 0 THEN 0 ELSE 1 + Depth(L, L.parent[i])

DistinctIds(L) == \A i, j \in 0..L.n : i # j => L.id[i] # L.id[j]

\* The flattened entry of node i (the IDs being distinct).
EntryOf(L, i) == Get(collections_tree_flatten, IntKey(L.id[i]))

\* The node below the root whose collection ID is x.
NodeWithId(L, x) == CHOOSE i \in 1..L.n : L.id[i] = x

\* "/".join(names)
RECURSIVE JoinSlash(_)
JoinSlash(names) ==
    IF Len(names) = 0 THEN <<>>
    ELSE IF Len(names) = 1 THEN names[1]
    ELSE names[1] \o <<"/">> \o JoinSlash(Tail(names))

\* The names of the collections whose IDs are listed in ids.
NamesAlong(L, ids) == [k \in 1..Len(ids) |-> L.name[NodeWithId(L, ids[k])]]

\* pathIds of a flattened entry: as long as the node is deep, ending in the
\* node's own ID, and extending the parent's pathIds.
PathIdsExtendParent(L, i) ==
    LET e == EntryOf(L, i)
        d == Depth(L, i)
    IN  /\ Len(e.pathIds) = d
        /\ e.pathIds[d] = L.id[i]
        /\ L.parent[i] # 0 => SubSeq(e.pathIds, 1, d - 1) = EntryOf(L, L.parent[i]).pathIds

\* C9 as stated: for distinct IDs, every non-root node's entry has pathIds
\* extending the parent's, and its path is the parent's path + "/" + its name
\* (its name alone for a child of the root), so that the path is the names of
\* the collections of pathIds joined by "/".
C9_AsStated ==
    (pc = "flattened" /\ DistinctIds(layout)) =>
        \A i \in 1..layout.n :
            /\ Has(collections_tree_flatten, IntKey(layout.id[i]))
            /\ PathIdsExtendParent(layout, i)
            /\ EntryOf(layout, i).path =
                 IF layout.parent[i] = 0 THEN layout.name[i]
                 ELSE EntryOf(layout, layout.parent[i]).path \o <<"/">> \o layout.name[i]
            /\ EntryOf(layout, i).path =
                 JoinSlash(NamesAlong(layout, EntryOf(layout, i).pathIds))

\* C9 as amended: the pathIds part unchanged; the path is the node's name
\* alone when the parent is the root or the parent's path is empty, and the
\* parent's path + "/" + name otherwise; the path is the "/"-join of the names
\* along pathIds when none of those names is empty.
C9_FlattenedEntryStructure ==
    (pc = "flattened" /\ DistinctIds(layout)) =>
        \A i \in 1..layout.n :
            /\ Has(collections_tree_flatten, IntKey(layout.id[i]))
            /\ PathIdsExtendParent(layout, i)
            /\ EntryOf(layout, i).path =
                 IF layout.parent[i] = 0 \/ EntryOf(layout, layout.parent[i]).path = <<>>
                 THEN layout.name[i]
                 ELSE EntryOf(layout, layout.parent[i]).path \o <<"/">> \o layout.name[i]
            /\ LET names == NamesAlong(layout, EntryOf(layout, i).pathIds)
               IN  (\A k \in 1..Len(names) : names[k] # <<>>) =>
                        EntryOf(layout, i).path = JoinSlash(names)

\* C9 witness: a flattened tree with distinct IDs and a node at depth 3 whose
\* path has three non-empty segments.
C9_Witness ==
    /\ pc = "flattened"
    /\ DistinctIds(layout)
    /\ \E i \in 1..layout.n :
        /\ Depth(layout, i) = 3
        /\ Len(EntryOf(layout, i).pathIds) = 3
        /\ \A k \in 1..layout.n : layout.name[k] # <<>>
        /\ Len(EntryOf(layout, i).path) = 5

\* C10: flattening coverage.  The keys of the result are exactly the IDs of
\* the nodes below the root; every entry is stored under its own ID with the
\* fields of a node of that ID, less 'children', plus pathIds and path; a root
\* without a 'children' key or with an empty list gives the empty mapping.
C10_FlatteningCoverage ==
    pc = "flattened" =>
        /\ Keys(collections_tree_flatten) = {IntKey(layout.id[i]) : i \in 1..layout.n}
        /\ \A k \in 1..Len(collections_tree_flatten) :
            LET e == collections_tree_flatten[k]
            IN  /\ DOMAIN e.v = {"id", "name", "alias", "pathIds", "path"}
                /\ e.k = IntKey(e.v.id)
                /\ \E i \in 1..layout.n :
                      layout.id[i] = e.v.id /\ layout.name[i] = e.v.name
        /\ DistinctIds(layout) =>
              \A i \in 1..layout.n : EntryOf(layout, i).name = layout.name[i]
        /\ ("children" \notin DOMAIN collections_tree.data
              \/ collections_tree.data.children = <<>>)
              => collections_tree_flatten = EmptyDict

\* C10 witness: a flattened tree with nodes at depth 1 and deeper, one of
\* them a leaf that carries an empty 'children' list.
C10_Witness ==
    /\ pc = "flattened"
    /\ Len(collections_tree_flatten) >= 3
    /\ \E i, j \in 1..layout.n :
        /\ layout.parent[j] = i
        /\ layout.haskey[j]
        /\ Has(collections_tree_flatten, IntKey(layout.id[j]))

----------------------------------------------------------------------------
(* Further properties of the merge engine (checked under SpecMerge).       *)

\* The numeric dataset IDs of the records of d are pairwise different.
DistinctDatasetIds(d) ==
    \A i, j \in 1..Len(d) :
        (i # j /\ DatasetIdOf(d[i].v) # None) => DatasetIdOf(d[i].v) # DatasetIdOf(d[j].v)

HasUsableId(value) == DatasetIdOf(value) # None /\ DatasetIdOf(value) # 0

C12_PermissionAttach ==
    (pc = "merged" /\ pre.perms.isdict) =>
        /\ \A e \in 1..Len(pre.perms.d) :
            LET entry == pre.perms.d[e]
                matched == RecordsWithId(pre.meta, entry.k.i) # {}
            IN  /\ matched =>
                     /\ \A j \in RecordsWithId(meta_dict, entry.k.i) :
                            meta_dict[j].v.permission_info = entry.v
                     /\ RecordsWithId(meta_dict, entry.k.i) # {}
                     /\ ~Has(permission_dict, entry.k)
                /\ ~matched =>
                     /\ Has(permission_dict, entry.k)
                     /\ Get(permission_dict, entry.k) = entry.v
        /\ Keys(permission_dict) \subseteq Keys(pre.perms.d)
        /\ \A j \in 1..Len(meta_dict) :
            \/ meta_dict[j].v.permission_info = Sentinel
            \/ \E e \in 1..Len(pre.perms.d) :
                /\ pre.perms.d[e].k.i = DatasetIdOf(meta_dict[j].v)
                /\ meta_dict[j].v.permission_info = pre.perms.d[e].v

\* A permission map of two entries met one record: one entry was attached
\* and removed, the other is left in the map.
C12_Witness ==
    /\ pc = "merged"
    /\ pre.perms.isdict
    /\ Len(pre.perms.d) = 2
    /\ Len(permission_dict) = 1
    /\ \E j \in 1..Len(meta_dict) :
        /\ meta_dict[j].v.permission_info # Sentinel
        /\ ~Has(permission_dict, IntKey(DatasetIdOf(meta_dict[j].v)))

\* The URL key holds, as a substring, the persistent ID of a reference of dd.
HoldsPendingPid(key, dd) ==
    \E j \in 1..Len(dd) : Contains(key.s, dd[j].v.datasetPersistentId)

\* C13 (failure reconciliation): rm_dd_from_failed_uris(failed, pending)
\* returns failed less exactly the keys that contain the persistent ID of a
\* pending reference: no such key is left, every other key is kept with its
\* status code, and no key is added.
C13_FailureReconciliation ==
    pc = "reconciled" =>
        /\ \A i \in 1..Len(pre.meta) :
            IF HoldsPendingPid(pre.meta[i].k, pre.refs)
            THEN ~Has(failed_metadata_uris, pre.meta[i].k)
            ELSE /\ Has(failed_metadata_uris, pre.meta[i].k)
                 /\ Get(failed_metadata_uris, pre.meta[i].k) = pre.meta[i].v
        /\ Keys(failed_metadata_uris) \subseteq Keys(pre.meta)
        /\ \A i \in 1..Len(failed_metadata_uris) :
            ~HoldsPendingPid(failed_metadata_uris[i].k, pre.refs)

\* Of two failed URLs one held the ID of a pending reference and was removed,
\* the other was kept.
C13_Witness ==
    /\ pc = "reconciled"
    /\ Len(pre.meta) = 2
    /\ Len(failed_metadata_uris) = 1
    /\ \E i \in 1..2 : HoldsPendingPid(pre.meta[i].k, pre.refs)

----------------------------------------------------------------------------
(* Further properties of the orchestrator (checked under Spec).            *)

PidsExtracted == \E k \in 1..Len(stages) : stages[k] = "get_pids"

\* The entries of type "dataset" in the contents stored for collection c.
DatasetEntriesOf(c) ==
    LET body == Get(dataverse_contents, IntKey(c))
    IN  IF "data" \in DOMAIN body
        THEN {k \in 1..Len(body.data) :
                "type" \in DOMAIN body.data[k] /\ body.data[k].type = "dataset"}
        ELSE {}

ListedEmpty(c) == \E k \in 1..Len(empty_dv_dict) : empty_dv_dict[k] = IntKey(c)

\* C14 (empty-collection detection): once get_pids has run, a requested
\* collection is in the empty-collections list iff its contents fetch
\* succeeded and its contents hold no entry of type "dataset"; a collection in
\* the contents-failure map is never in the list.
C14_EmptyCollectionDetection ==
    PidsExtracted =>
        /\ \A c \in CollectionIds(layout) :
            /\ ListedEmpty(c) <=>
                  (Has(dataverse_contents, IntKey(c)) /\ DatasetEntriesOf(c) = {})
            /\ Has(failed_dataverse_contents, IntKey(c)) => ~ListedEmpty(c)
        /\ \A k \in 1..Len(empty_dv_dict) :
            \E c \in CollectionIds(layout) : empty_dv_dict[k] = IntKey(c)

\* The root holds a sub-collection and no dataset and is listed as empty,
\* the sub-collection holds the datasets and is not, and in another run a
\* collection whose contents fetch failed is not listed.
C14_Witness ==
    /\ PidsExtracted
    /\ \/ /\ ListedEmpty(layout.id[0])
          /\ server[parse_dataverse_contents_url(layout.id[0])] = "ok"
          /\ Has(dataverse_contents, IntKey(layout.id[1]))
          /\ ~ListedEmpty(layout.id[1])
          /\ DatasetEntriesOf(layout.id[0]) = {}
          /\ Len(Get(dataverse_contents, IntKey(layout.id[0])).data) = 1

\* C15 (PID extraction): once get_pids has run, ds_dict holds one reference
\* per entry of type "dataset" of the stored contents and nothing else; the
\* reference of an entry is keyed by the entry's id, carries that id, and its
\* datasetPersistentId is protocol + ":" + authority + "/" + identifier.
C15_PidExtraction ==
    PidsExtracted =>
        /\ \A c \in CollectionIds(layout) :
            Has(dataverse_contents, IntKey(c)) =>
                \A k \in DatasetEntriesOf(c) :
                    LET item == Get(dataverse_contents, IntKey(c)).data[k]
                        key == StrKey(IntToStr(item.id))
                    IN  /\ Has(ds_dict, key)
                        /\ Get(ds_dict, key).datasetId = item.id
                        /\ Get(ds_dict, key).datasetPersistentId =
                              item.protocol \o <<":">> \o item.authority
                                  \o <<"/">> \o item.identifier
        /\ \A r \in 1..Len(ds_dict) :
            \E c \in CollectionIds(layout) :
                /\ Has(dataverse_contents, IntKey(c))
                /\ \E k \in DatasetEntriesOf(c) :
                      ds_dict[r].k = StrKey(IntToStr(Get(dataverse_contents, IntKey(c)).data[k].id))
        /\ \A d \in DsIds :
            server[parse_dataverse_contents_url(layout.id[placement[d]])] = "ok"
                => Has(ds_dict, StrKey(IntToStr(d)))

\* The root's contents list a sub-collection and a dataset, the
\* sub-collection's another dataset: two references, none for the
\* sub-collection.
C15_Witness ==
    /\ PidsExtracted
    /\ placement = RunPlacement
    /\ Len(dataverse_contents) = 2
    /\ Len(ds_dict) = MaxDs
    /\ \E k \in 1..Len(Get(dataverse_contents, IntKey(layout.id[0])).data) :
          Get(dataverse_contents, IntKey(layout.id[0])).data[k].type = "dataverse"

\* A run that asked for representation metadata and fetched no permissions
\* has combined its records.
MetadataOnlyRunEnded ==
    /\ pc \in {"combined", "done"}
    /\ config.dvdfds_matadata
    /\ ~config.permission

\* Dataset d is listed in the fetched contents of the depth-1 collection and
\* its metadata fetch succeeded (the body embeds datasetId d).
MergedFromDepthOne(d) ==
    /\ placement[d] = 1
    /\ Has(dataverse_contents, IntKey(layout.id[1]))
    /\ Has(ds_dict, StrKey(IntToStr(d)))
    /\ server[parse_dataset_content_url(PidOf(d))] = "ok"

\* The merged record of dataset d has the given path and the placeholder as
\* its permission_info.
MergedWithPath(d, path) ==
    /\ Has(meta_dict, IntKey(d))
    /\ LET rec == Get(meta_dict, IntKey(d))
       IN  /\ "path_info" \in DOMAIN rec
           /\ rec.path_info.path = Str(path)
           /\ "permission_info" \in DOMAIN rec
           /\ rec.permission_info = [status |-> "NA", data |-> <<>>]

FlattenedPathOf(c) == Get(collections_tree_flatten, IntKey(c)).path

\* C16 as stated: path_info.path is the flattened path of the containing
\* collection, unchanged.
C16_AsStated ==
    MetadataOnlyRunEnded =>
        \A d \in DsIds :
            MergedFromDepthOne(d) => MergedWithPath(d, FlattenedPathOf(layout.id[1]))

\* C16 (end-to-end path attachment): in a run with representation metadata
\* and without permissions, a dataset n listed in a depth-1 collection whose
\* metadata fetch succeeds yields a merged record keyed by n whose
\* path_info.path is "/" followed by the collection's flattened path (its
\* name) and whose permission_info is {status: "NA", data: []}.
C16_EndToEndPath ==
    MetadataOnlyRunEnded =>
        \A d \in DsIds :
            MergedFromDepthOne(d) =>
                /\ FlattenedPathOf(layout.id[1]) = layout.name[1]
                /\ MergedWithPath(d, <<"/">> \o FlattenedPathOf(layout.id[1]))

C16_Witness ==
    /\ MetadataOnlyRunEnded
    /\ pc = "done"
    /\ \E d \in DsIds :
        /\ MergedFromDepthOne(d)
        /\ MergedWithPath(d, <<"/">> \o layout.name[1])

----------------------------------------------------------------------------
(* Properties of the connection check (checked under Spec).                *)

\* config.get('API_KEY') is truthy.
CredentialConfigured(cfg) == ~cfg.API_KEY.none /\ cfg.API_KEY.s # <<>>

ProbeSucceeded(c, name) ==
    \E k \in 1..Len(c.probes) : c.probes[k].probe = name /\ c.probes[k].ok

ProbeFailed(c, name) ==
    \E k \in 1..Len(c.probes) : c.probes[k].probe = name /\ ~c.probes[k].ok

Degraded ==
    /\ ProbeFailed(connection, "authenticate_api_key")
    /\ ProbeSucceeded(connection, "authenticate_dv_connection")

HasKeyHeader(headers) == "X-Dataverse-key" \in DOMAIN headers

PermissionUrls == {parse_permission_url(d) : d \in DsIds}

----------------------------------------------------------------------------
(* Further properties of the fetch layer (checked under SpecFetch).        *)

PositionsOf(url) == {j \in 1..Len(url_list) : url_list[j] = url}

\* The GET requests sent so far for the URL at position i.
RequestsFor(i) == CopiesIn(Request(url_list[i], config.HEADERS), sent)

GatherReturned == pc \in {"returned", "raised"}

\* C19 (batch completion without retry): never more than one request is sent
\* per submitted URL, whatever its outcome; when async_get has returned,
\* every task of the batch is done, exactly one request per submitted URL
\* was sent, and there is exactly one result per submitted URL, each a
\* response (real or made up for a transport failure) for that URL.
C19_BatchCompletion ==
    /\ \A i \in 1..Len(url_list) :
        /\ RequestsFor(i) <= Cardinality(PositionsOf(url_list[i]))
        /\ task[i] \in {"inflight", "done"} => RequestsFor(i) >= 1
        /\ task[i] # "done" => results[i] = NoResponse
    /\ BagCardinality(sent) <= Len(url_list)
    /\ GatherReturned =>
        /\ Len(results) = Len(url_list)
        /\ BagCardinality(sent) = Len(url_list)
        /\ \A i \in 1..Len(url_list) :
            /\ task[i] = "done"
            /\ RequestsFor(i) = Cardinality(PositionsOf(url_list[i]))
            /\ results[i] # NoResponse
            /\ results[i].url = url_list[i]

\* A batch of two has returned: one request met a transport failure, its
\* sibling was answered with a 200.
C19_Witness ==
    /\ GatherReturned
    /\ Len(url_list) = MaxDs
    /\ \E i, j \in 1..Len(url_list) :
        /\ results[i] = Response(FallbackStatus, url_list[i], NotJson)
        /\ results[j].status_code = HttpSuccess

----------------------------------------------------------------------------
(* Result association of the batch operations (checked under Spec).        *)

\* What the client returns for the request at position i of the batch, the
\* repository answering each URL as `server` says.
AnswerTo(i) == ClientReturn(server[url_list[i]], op, id_list[i], url_list[i])

\* C20 (result association is independent of completion order): in
\* get_dataverse_contents and get_datasets_permissions, whichever request
\* completes first, the result at position i is the response to the i-th
\* URL, and the returned maps hold for each identifier the outcome of its
\* own URL (the body under the ID; or the failure under the ID, respectively
\* under the URL) and nothing else, so they are determined by the responses
\* alone.
C20_ResultAssociation ==
    (pc \in {"gather", "returned"} /\ op \in {"contents", "permission"}) =>
        /\ \A i \in 1..Len(url_list) : task[i] = "done" => results[i] = AnswerTo(i)
        /\ pc = "returned" =>
            /\ Len(success) + Len(failure) = Len(id_list)
            /\ \A i \in 1..Len(id_list) :
                LET r == AnswerTo(i)
                    key == IntKey(id_list[i])
                IN  IF r.status_code = HttpSuccess /\ Truthy(r.body.json)
                    THEN /\ Has(success, key)
                         /\ Get(success, key) = r.body.json
                         /\ r.body.json = ServerBody(op, id_list[i])
                                \/ server[url_list[i]] # "ok"
                    ELSE IF op = "contents"
                    THEN /\ Has(failure, key)
                         /\ Get(failure, key) =
                               [url |-> url_list[i], status_code |-> r.status_code]
                    ELSE /\ Has(failure, StrKey(url_list[i]))
                         /\ Get(failure, StrKey(url_list[i])) = r.status_code

\* The second request of a contents batch has completed while the first is
\* still in flight, and the two URLs are answered differently.
C20_Witness ==
    /\ pc = "gather"
    /\ op = "contents"
    /\ Len(url_list) = 2
    /\ task[1] = "inflight"
    /\ task[2] = "done"
    /\ results[2] = AnswerTo(2)
    /\ AnswerTo(1).body # AnswerTo(2).body

----------------------------------------------------------------------------
(* Failure records of the batch operations (checked under SpecFetch).      *)

\* The request at position i met a transport error: no HTTP response arrived
\* and the client returned its made-up response.
MetTransportError(i) == results[i] = Response(FallbackStatus, url_list[i], NotJson)

FailureKey(i) == IF op = "contents" THEN IntKey(id_list[i]) ELSE StrKey(url_list[i])

\* The status written into the failure map for the request at position i.
RecordedStatus(i) ==
    IF op = "contents" THEN Get(failure, FailureKey(i)).status_code
    ELSE Get(failure, FailureKey(i))

\* C21 (transport failures stay distinguishable): in the failure map a
\* batch operation returns, a request that met a transport error is recorded
\* with a null status, which no failure with a real HTTP status carries.
C21_AsStated ==
    pc = "returned" =>
        \A i \in 1..Len(url_list) :
            /\ MetTransportError(i) =>
                /\ Has(failure, FailureKey(i))
                /\ RecordedStatus(i) = None
            /\ (Has(failure, FailureKey(i)) /\ ~MetTransportError(i)) =>
                RecordedStatus(i) # None

----------------------------------------------------------------------------
(* Repeated flattening (checked under SpecRepeat).                         *)

\* C22 (flattening is stateless across calls): after any number of calls,
\* on this tree and on others before it, the mapping returned for the tree
\* equals the one its first call returned and the one a call with a fresh
\* empty path_ids returns, the default list is still empty, and the tree
\* handed in is as it was parsed.
C22_FlatteningStateless ==
    /\ default_path_ids = <<>>
    /\ collections_tree = TreeResponse(layout)
    /\ pc = "flattened" =>
        /\ collections_tree_flatten = first_flatten
        /\ collections_tree_flatten = flatten_collection(TreeResponse(layout))

\* The third call in one interpreter has returned, on a tree with nested
\* collections.
C22_Witness ==
    /\ pc = "flattened"
    /\ Len(stages) = MaxCalls
    /\ layout.n = 2
    /\ layout.parent = <<0, 1>>
    /\ Len(collections_tree_flatten) = 2
    /\ collections_tree_flatten = first_flatten

----------------------------------------------------------------------------
(* Stages and exports of a run (checked under Spec).                       *)

\* How often the run has made the call so far.
Calls(call) == Cardinality({k \in 1..Len(stages) : stages[k] = call})

\* The run got past the tree fetch.
PastTreeFetch == Calls("flatten_collection") > 0

\* The run is over: it returned, or an exception left main.
RunEnded == pc \in {"done", "raised", "crashed"}

\* C23 (conditional stages): the metadata batch is issued iff representation
\* metadata was requested, the permission batch iff permission metadata was
\* requested and the authentication valid, and add_permission_info is
\* executed exactly once in every run that gets past the tree fetch.
C23_AsStated ==
    /\ Calls("get_datasets_meta") > 0 => config.dvdfds_matadata
    /\ Calls("get_datasets_permissions") > 0 =>
          (config.permission /\ connection.auth_status)
    /\ Calls("add_permission_info") <= 1
    /\ (PastTreeFetch /\ RunEnded) =>
        /\ config.dvdfds_matadata <=> Calls("get_datasets_meta") = 1
        /\ (config.permission /\ connection.auth_status)
              <=> Calls("get_datasets_permissions") = 1
        /\ Calls("add_permission_info") = 1

\* The contents of the files exported under the name so far.
Exported(name) == {exports[k].content : k \in {j \in 1..Len(exports) : exports[j].file = name}}

\* The references of the datasets listed in the fetched contents.
ListedDatasets ==
    {d \in DsIds : Has(dataverse_contents, IntKey(layout.id[placement[d]]))
                   /\ server[parse_dataverse_contents_url(layout.id[placement[d]])] = "ok"}

\* C24 (permission-only mode): in a run without representation metadata
\* the merged-metadata mapping stays empty and no ds_metadata file is
\* written; what is exported as permission_dict is the map the permission
\* batch returned and what is exported as pid_dict is the reference map as
\* get_pids extracted it, one reference per listed dataset, none with
\* path_info or permission_info joined in; and when the permission crawl
\* took place the finished run has written both files.
C24_PermissionOnlyMode ==
    ~config.dvdfds_matadata =>
        /\ meta_dict = EmptyDict
        /\ Exported("ds_metadata") = {}
        /\ \A c \in Exported("permission_dict") :
            /\ c = permission_dict
            /\ \A k \in 1..Len(c) :
                LET d == c[k].k.i
                    url == parse_permission_url(d)
                IN  c[k].v = ClientReturn(server[url], "permission", d, url).body.json
        /\ \A c \in Exported("pid_dict") :
            /\ c = ds_dict
            /\ c = get_pids(dataverse_contents, config).write_dict
            /\ \A d \in ListedDatasets : Has(c, StrKey(IntToStr(d)))
            /\ \A k \in 1..Len(c) :
                DOMAIN c[k].v = {"CollectionAlias", "CollectionID", "datasetPersistentId",
                                 "datasetId", "path", "pathIds"}
        /\ (pc = "done" /\ config.permission) =>
            /\ Exported("permission_dict") # {}
            /\ Exported("pid_dict") # {}

\* A permission-only run has ended with the permissions of both datasets and
\* both references exported.
C24_Witness ==
    /\ pc = "done"
    /\ ~config.dvdfds_matadata
    /\ config.permission
    /\ \E c \in Exported("permission_dict") : Len(c) = MaxDs
    /\ \E c \in Exported("pid_dict") : Len(c) = MaxDs
    /\ meta_dict = EmptyDict

\* The options passed the checks that come before the API-token check.
TokenCheckReached ==
    /\ pc # "start"
    /\ ~(config.spreadsheet /\ ~config.dvdfds_matadata)
    /\ ~(~config.dvdfds_matadata /\ ~config.permission)

\* The run ended at the API-token check: before any probe of the repository.
AbortedAtTokenCheck ==
    /\ TokenCheckReached
    /\ pc = "exited"
    /\ connection = NoConnection

NoCredential(cfg) == cfg.API_KEY.none \/ cfg.API_KEY = Str(<<"None">>)

\* C25 (credential precondition): the API-token check aborts the run iff
\* permission crawling is requested and API_KEY is None or the string
\* 'None'; without the permission option it never aborts.
C25_AsStated ==
    TokenCheckReached =>
        /\ AbortedAtTokenCheck => (config.permission /\ NoCredential(config))
        /\ (connection = NoConnection /\ config.permission /\ NoCredential(config))
              => AbortedAtTokenCheck

\* C26 as stated (export follows merge): nothing is exported before
\* add_permission_info has executed.
C26_AsStated ==
    exports # <<>> => Calls("add_permission_info") = 1

\* C26 (export order): the merged metadata, the CSV file and the empty
\* collections are exported only after add_permission_info has executed;
\* the pending references and the failed URIs are exported after
\* add_path_info, the permission map and the reference map of a run without
\* representation metadata after the permission batch.  Each exported
\* merged record carries its path_info and its permission_info, and the
\* mapping is not changed after its export.
C26_ExportOrder ==
    /\ (Exported("ds_metadata") \cup Exported("csv") \cup Exported("empty_dv")) # {}
          => Calls("add_permission_info") = 1
    /\ (Exported("pid_dict_dd") \cup Exported("failed_metadata_uris")) # {}
          => Calls("add_path_info") = 1
    /\ (Exported("permission_dict") \cup Exported("pid_dict")) # {}
          => Calls("get_datasets_permissions") = 1
    /\ \A c \in Exported("ds_metadata") \cup Exported("csv") :
        /\ c = meta_dict
        /\ \A k \in 1..Len(c) :
            {"path_info", "permission_info"} \subseteq DOMAIN c[k].v
    /\ \A k \in 1..Len(exports) :
        exports[k].file \in {"pid_dict_dd", "failed_metadata_uris", "permission_dict",
                             "pid_dict", "ds_metadata", "empty_dv", "csv"}

\* A run with both kinds of metadata has exported the pending references
\* before the merge and the merged records of both datasets after it.
C26_Witness ==
    /\ pc = "done"
    /\ config.dvdfds_matadata /\ config.permission
    /\ Exported("pid_dict_dd") # {}
    /\ \E c \in Exported("ds_metadata") : Len(c) = MaxDs
    /\ exports[1].file = "pid_dict_dd"

----------------------------------------------------------------------------
(* Termination of a batch behind the gate (checked under SpecGateFair).    *)

\* C27 (gate release and batch termination): when every request sent is
\* eventually resolved, every request waiting behind the gate eventually
\* gets a slot and the batch eventually returns; a slot is held only by a
\* request in flight, whatever the request met, so that at the return of the
\* batch all SemaphoreLimit slots are free again.
C27_GateRelease ==
    /\ [](sem = SemaphoreLimit - Cardinality({i \in 1..Len(task) : task[i] = "inflight"}))
    /\ [](pc \in {"returned", "raised"} => sem = SemaphoreLimit)
    /\ (\E i \in 1..Len(task) : task[i] = "waiting")
          ~> (\A i \in 1..Len(task) : task[i] \in {"inflight", "done"})
    /\ (pc = "gather") ~> (pc \in {"returned", "raised"})

\* The batch has returned after some request had to wait for a slot, with a
\* 200, a 404 and a transport error among the outcomes.
C27_Witness ==
    /\ pc = "returned"
    /\ Len(task) > SemaphoreLimit
    /\ sem = SemaphoreLimit
    /\ \E i, j, k \in 1..Len(results) :
        /\ results[i].status_code = HttpSuccess
        /\ results[j].status_code = 404
        /\ results[k] = Response(FallbackStatus, url_list[k], NotJson)

----------------------------------------------------------------------------
(* What is left in the failed metadata URIs after the reconciliation.      *)

MetaUrlOf(d) == parse_dataset_content_url(PidOf(d))

\* The listed datasets whose metadata request met a transport error or a
\* server error.
UnexplainedMetaFailures ==
    {d \in ListedDatasets : server[MetaUrlOf(d)] \in {"transport", "error500"}}

\* C28 (unexplained failures survive reconciliation): once the metadata have
\* been joined, and up to the end of the run, the URL of every dataset whose
\* metadata request met a transport error or a server error is in
\* failed_metadata_uris with status 500, and in the exported report when one
\* is written; an entry of the batch's failure map that the reconciliation
\* dropped belongs to a request the repository answered with "not found".
C28_UnexplainedFailuresSurvive ==
    /\ (config.dvdfds_matadata /\ Calls("add_path_info") = 1) =>
        \A d \in UnexplainedMetaFailures :
            /\ Has(failed_metadata_uris, StrKey(MetaUrlOf(d)))
            /\ Get(failed_metadata_uris, StrKey(MetaUrlOf(d))) = FallbackStatus
            /\ (config.failed /\ pc = "done") =>
                    Exported("failed_metadata_uris") = {failed_metadata_uris}
    /\ pc = "path_joined" =>
        \A k \in 1..Len(failure) :
            ~Has(failed_metadata_uris, failure[k].k) =>
                /\ failure[k].v # FallbackStatus
                /\ server[failure[k].k.s] = "notfound"

\* A run with -d and --failed has ended in which the metadata request of a
\* listed dataset met a transport error.
C28_Witness ==
    /\ pc = "done"
    /\ config.dvdfds_matadata
    /\ config.failed
    /\ \E d \in UnexplainedMetaFailures :
        /\ server[MetaUrlOf(d)] = "transport"
        /\ Has(pid_dict_dd, StrKey(IntToStr(d)))
        /\ \E k \in 1..Len(exports) :
            /\ exports[k].file = "failed_metadata_uris"
            /\ Has(exports[k].content, StrKey(MetaUrlOf(d)))

----------------------------------------------------------------------------
(* What a run reports of the failures of its three batch operations.       *)

\* The keys of the failure data a finished run hands out: the failed
\* metadata URIs main_crawler returns, and the failed report it exports.
ReportedFailures ==
    Keys(failed_metadata_uris)
    \cup UNION {Keys(content) : content \in Exported("failed_metadata_uris")}

\* C29 (no failure is silently lost): at the end of a run every collection
\* whose contents request failed and every dataset whose permission request
\* failed is among the failures the run returns or exports.
C29_AsStated ==
    pc = "done" =>
        /\ Keys(failed_dataverse_contents) \subseteq ReportedFailures
        /\ Keys(failed_permission_uris) \subseteq ReportedFailures

----------------------------------------------------------------------------
(* The reference map after the join with the metadata.                     *)

\* The references as get_pids extracted them from the fetched contents.
ExtractedReferences == get_pids(dataverse_contents, config).write_dict

\* C30 (join leaves the reference map intact): after add_path_info the
\* reference map ds_dict is what it was before the call and what get_pids
\* extracted, same keys and same values, whatever was matched; the
\* permission batch issued afterwards has one identifier per extracted
\* dataset, and when it has returned a permission request was sent for every
\* one of them, the ones left pending in pid_dict_dd included.
C30_ReferenceMapIntact ==
    /\ Calls("add_path_info") = 1 =>
        /\ ds_dict = pre.refs
        /\ ds_dict = ExtractedReferences
        /\ \A k \in 1..Len(pid_dict_dd) :
            /\ Has(ds_dict, pid_dict_dd[k].k)
            /\ Get(ds_dict, pid_dict_dd[k].k) = pid_dict_dd[k].v
    /\ (op = "permission" /\ pc \in {"gather", "returned"}) =>
        /\ id_list = [k \in 1..Len(ExtractedReferences) |-> ExtractedReferences[k].v.datasetId]
        /\ pc = "returned" =>
            \A k \in 1..Len(ExtractedReferences) :
                \E r \in BagToSet(sent) :
                    r.url = parse_permission_url(ExtractedReferences[k].v.datasetId)

\* The permission batch has returned in a run where the join matched the
\* metadata of one dataset and left another pending, and a permission
\* request was sent for the pending one.
C30_Witness ==
    /\ pc = "returned"
    /\ op = "permission"
    /\ Calls("add_path_info") = 1
    /\ meta_dict # EmptyDict
    /\ Len(pid_dict_dd) > 0
    /\ Len(pid_dict_dd) < Len(ds_dict)
    /\ \A k \in 1..Len(pid_dict_dd) :
        \E r \in BagToSet(sent) : r.url = parse_permission_url(pid_dict_dd[k].v.datasetId)

=============================================================================
